---- MODULE Spec2Model ----
(***************************************************************************)
(* Distributed background computation: FastAPI handlers (backend/app/      *)
(* main.py) submit jobs, Celery tasks (backend/app/tasks.py) split a job   *)
(* into chunks, run them concurrently and aggregate them through a chord.  *)
(* The Progress Store is Redis: the hash progress:{job_id}, the key        *)
(* result:{job_id} and the keys idempotency:{key}.                         *)
(***************************************************************************)
EXTENDS Integers, Sequences, FiniteSets, TLC

(***************************************************************************)
(* Bounds of the model.                                                    *)
(***************************************************************************)
MaxN == 3            \* largest n submitted to the worker pipeline
MaxChunks == 2       \* largest chunks submitted to the worker pipeline
MaxJobs == 2         \* job ids the idempotency specification can issue
MaxApiJobs == 1      \* job ids the API specification can issue
MaxRequests == 2     \* create_job handlers in flight at once
MaxPartN == 12       \* largest n given to start_job alone
MaxPartChunks == 12  \* largest chunks given to start_job alone
MaxTicks == 2        \* clock advances of the idempotency specification
MaxKeys == 1         \* distinct Idempotency-Key values
MaxPollN == 2        \* largest n of the job whose status is queried
MaxPollChunks == 1   \* largest chunks of the job whose status is queried
MaxStreamPolls == 1  \* polls of a status stream when the expiry of the record is examined
MaxStreamN == 1      \* largest n of the job whose events are streamed
MaxWebSockets == 1   \* WebSockets that subscribe to the job
MaxSubscribers == 3  \* WebSockets that subscribe to the jobs send_job_update serves
MaxIps == 1          \* client addresses of the rate limiter
MaxCleanupIps == 2   \* client addresses when the limiter's cleanup is examined
MaxCleanupCapacity == 2  \* requests per minute when the limiter's cleanup is examined
MaxCleanupCalls == 3 \* calls of check_rate_limit when the limiter's cleanup is examined
MaxCleanupSleeps == 2  \* pauses when the limiter's cleanup is examined
MaxCapacity == 7     \* largest capacity (requests per minute) of the rate limiter
MaxExtraCalls == 2   \* check_rate_limit calls of one client beyond the capacity
MaxSleeps == 1       \* times the clock advances other than by a retry_after

(***************************************************************************)
(* Program constants.                                                      *)
(***************************************************************************)
max_job_n == 1000000
max_chunks == 100
schema_chunks_le == 1024
demo_max_n == 10000
demo_max_chunks == 8
max_retries == 2
idempotency_ttl == 86400
TickStep == idempotency_ttl \div 2

JobIds == 1 .. MaxJobs
retention_hours == 24
Terminal == {"completed", "failed", "cancelled"}
InFlight == {"pending", "running"}

Max(a, b) == IF a >= b THEN a ELSE b
Min(a, b) == IF a <= b THEN a ELSE b

None == <<>>
Some(v) == <<v>>

(***************************************************************************)
(* Redis hash progress:{job_id}.  has is the set of fields the hash holds  *)
(* (the empty set: the key does not exist); a field that is not held has   *)
(* its default value below, so that equal hashes are equal values.         *)
(* progress is kept in ten-thousandths, the precision of "{:.4f}"; detail  *)
(* is the message with its two format arguments.                           *)
(***************************************************************************)
Detail(msg, a, b) == [msg |-> msg, a |-> a, b |-> b]
NoDetail == Detail("", 0, 0)
AllFields == {"status", "total_chunks", "completed_chunks", "progress", "detail"}

NoRecord ==
    [has |-> {}, status |-> "", total_chunks |-> 0, completed_chunks |-> 0,
     progress |-> 0, detail |-> NoDetail]

Exists(rec) == rec.has # {}

\* f"{progress:.4f}" of progress = min(1.0, completed / total_chunks), in
\* ten-thousandths: round-half-even of the quotient.
Fmt4(completed, total) ==
    IF completed >= total THEN 10000
    ELSE LET q == (completed * 10000) \div total
             r == (completed * 10000) % total
         IN  IF 2 * r < total THEN q
             ELSE IF 2 * r > total THEN q + 1
             ELSE IF q % 2 = 0 THEN q ELSE q + 1

\* sum(range(start, end + 1))
RECURSIVE RangeSumExclusive(_, _)
RangeSumExclusive(start, end) ==
    IF start >= end THEN 0 ELSE start + RangeSumExclusive(start + 1, end)
RECURSIVE RangeSum(_, _)
RangeSum(start, end) ==
    IF start > end THEN 0 ELSE start + RangeSum(start + 1, end)

RECURSIVE SeqSum(_)
SeqSum(s) == IF s = <<>> THEN 0 ELSE Head(s) + SeqSum(Tail(s))

(***************************************************************************)
(* start_job: the chunk partition.                                         *)
(***************************************************************************)
TotalChunks(n, requested_chunks) == Max(1, Min(requested_chunks, n))

\* math.ceil(n / total_chunks)
ChunkSize(n, total_chunks) == (n + total_chunks - 1) \div total_chunks

Signature(index, start, end) ==
    [index |-> index, start |-> start, end |-> end,
     pc |-> "queued", retries |-> 0, completed |-> 0, ret |-> 0]

\* The loop of start_job: one signature per index, leaving the loop early
\* once start_value has passed n.
RECURSIVE SubtaskLoop(_, _, _, _, _, _)
SubtaskLoop(n, chunk_size, total_chunks, index, start_value, subtasks) ==
    IF index >= total_chunks THEN subtasks
    ELSE LET end_value == Min(n, start_value + chunk_size - 1)
             appended == Append(subtasks, Signature(index, start_value, end_value))
         IN  IF end_value + 1 > n THEN appended
             ELSE SubtaskLoop(n, chunk_size, total_chunks, index + 1,
                              end_value + 1, appended)

SubtasksFloor(n, requested_chunks) ==
    LET total_chunks == TotalChunks(n, requested_chunks)
    IN  SubtaskLoop(n, n \div total_chunks, total_chunks, 0, 1, <<>>)
Subtasks(n, requested_chunks) ==
    LET total_chunks == TotalChunks(n, requested_chunks)
    IN  SubtaskLoop(n, ChunkSize(n, total_chunks), total_chunks, 0, 1, <<>>)

(***************************************************************************)
(* rate_limiter.py computes in Python floats (IEEE 754 binary64, round to  *)
(* nearest, ties to even).  A natural number of any size is a sequence of  *)
(* limbs, least significant first, without leading zero limbs; a float is  *)
(* zero or m * 2^e with m of exactly mant_dig bits.  The limiter's floats  *)
(* are never negative, infinite or subnormal.                              *)
(***************************************************************************)
mant_dig == 53
LimbBits == 15
LimbBase == 2 ^ LimbBits

RECURSIVE BigTrim(_)
BigTrim(a) ==
    IF a = <<>> THEN a
    ELSE IF a[Len(a)] = 0 THEN BigTrim(SubSeq(a, 1, Len(a) - 1)) ELSE a

RECURSIVE BigFromInt(_)
BigFromInt(n) == IF n = 0 THEN <<>> ELSE <<n % LimbBase>> \o BigFromInt(n \div LimbBase)

RECURSIVE BigAddCarry(_, _, _)
BigAddCarry(a, b, carry) ==
    IF a = <<>> /\ b = <<>> THEN (IF carry = 0 THEN <<>> ELSE <<carry>>)
    ELSE LET x == (IF a = <<>> THEN 0 ELSE Head(a)) + (IF b = <<>> THEN 0 ELSE Head(b)) + carry
         IN  <<x % LimbBase>> \o BigAddCarry(IF a = <<>> THEN a ELSE Tail(a),
                                             IF b = <<>> THEN b ELSE Tail(b), x \div LimbBase)

BigAdd(a, b) == BigAddCarry(a, b, 0)

\* a - b - borrow, for a >= b + borrow
RECURSIVE BigSubBorrow(_, _, _)
BigSubBorrow(a, b, borrow) ==
    IF a = <<>> THEN <<>>
    ELSE LET x == Head(a) - (IF b = <<>> THEN 0 ELSE Head(b)) - borrow
         IN  <<x % LimbBase>> \o BigSubBorrow(Tail(a), IF b = <<>> THEN b ELSE Tail(b),
                                              IF x < 0 THEN 1 ELSE 0)

BigSub(a, b) == BigTrim(BigSubBorrow(a, b, 0))

\* a < b, comparing equally long numbers from limb i downwards
RECURSIVE BigLessFrom(_, _, _)
BigLessFrom(a, b, i) ==
    IF i = 0 THEN FALSE
    ELSE IF a[i] # b[i] THEN a[i] < b[i] ELSE BigLessFrom(a, b, i - 1)

BigLess(a, b) == IF Len(a) # Len(b) THEN Len(a) < Len(b) ELSE BigLessFrom(a, b, Len(a))

\* a * k + carry, for 0 <= k <= LimbBase
RECURSIVE BigMulSmall(_, _, _)
BigMulSmall(a, k, carry) ==
    IF a = <<>> THEN (IF carry = 0 THEN <<>> ELSE <<carry>>)
    ELSE LET x == Head(a) * k + carry
         IN  <<x % LimbBase>> \o BigMulSmall(Tail(a), k, x \div LimbBase)

RECURSIVE BigMul(_, _)
BigMul(a, b) ==
    IF a = <<>> \/ b = <<>> THEN <<>>
    ELSE BigTrim(BigAdd(BigMulSmall(a, Head(b), 0), <<0>> \o BigMul(a, Tail(b))))

\* a * 2^n
BigShl(a, n) ==
    IF a = <<>> THEN a
    ELSE [i \in 1 .. (n \div LimbBits) |-> 0] \o BigTrim(BigMulSmall(a, 2 ^ (n % LimbBits), 0))

RECURSIVE IntBitLen(_)
IntBitLen(n) == IF n = 0 THEN 0 ELSE 1 + IntBitLen(n \div 2)

BigBitLen(a) == IF a = <<>> THEN 0 ELSE LimbBits * (Len(a) - 1) + IntBitLen(a[Len(a)])

\* quotient and remainder of (rem * LimbBase^Len(a) + a) by d, for rem < d <= LimbBase
RECURSIVE BigDivSmallRem(_, _, _)
BigDivSmallRem(a, d, rem) ==
    IF a = <<>> THEN [q |-> <<>>, r |-> rem]
    ELSE LET cur == rem * LimbBase + a[Len(a)]
             lower == BigDivSmallRem(SubSeq(a, 1, Len(a) - 1), d, cur % d)
         IN  [q |-> lower.q \o <<cur \div d>>, r |-> lower.r]

BigDivSmall(a, d) ==
    LET x == BigDivSmallRem(a, d, 0) IN [q |-> BigTrim(x.q), r |-> x.r]

\* One quotient limb of long division (Knuth's algorithm D): the largest d with
\* d * q <= r, for r < q * LimbBase and q's highest limb >= LimbBase / 2.  The
\* estimate from the highest limbs is at most 2 too large.
BigQuotientLimb(r, q) ==
    LET n == Len(q)
        r_hi == IF Len(r) > n THEN r[n + 1] ELSE 0
        r_mid == IF Len(r) >= n THEN r[n] ELSE 0
        est == Min(LimbBase - 1, (r_hi * LimbBase + r_mid) \div q[n])
    IN  IF ~BigLess(r, BigTrim(BigMulSmall(q, est, 0))) THEN est
        ELSE IF ~BigLess(r, BigTrim(BigMulSmall(q, est - 1, 0))) THEN est - 1
        ELSE est - 2

\* One step of long division: the remainder prev.r takes the next limb of the
\* dividend and gives the next limb of the quotient.  (The bound variables
\* hold the values of rv and d, which are computed once.)
BigDivModLimb(limb, q, prev) ==
    CHOOSE x \in {[q |-> <<d>> \o prev.q, r |-> BigSub(rv, BigTrim(BigMulSmall(q, d, 0)))] :
                     rv \in {BigTrim(<<limb>> \o prev.r)},
                     d \in {BigQuotientLimb(BigTrim(<<limb>> \o prev.r), q)}} : TRUE

\* long division of the limbs i, i + 1, ... of p by q, highest limb first; the
\* Len(q) - 1 highest limbs of p are less than q
RECURSIVE BigDivModFrom(_, _, _)
BigDivModFrom(p, q, i) ==
    IF i > Len(p) - (Len(q) - 1) THEN [q |-> <<>>, r |-> BigTrim(SubSeq(p, Max(i, 1), Len(p)))]
    ELSE CHOOSE x \in {BigDivModLimb(p[i], q, prev) : prev \in {BigDivModFrom(p, q, i + 1)}} : TRUE

\* quotient and remainder of p by q > 0; both are first scaled so that q's
\* highest limb is at least LimbBase / 2
BigDivModScaled(p, q, sh) ==
    CHOOSE y \in {[q |-> BigTrim(x.q), r |-> BigDivSmall(x.r, 2 ^ sh).q] :
                     x \in {BigDivModFrom(p, q, 1)}} : TRUE

BigDivMod(p, q) ==
    CHOOSE y \in {BigDivModScaled(pv, qv, LimbBits - IntBitLen(q[Len(q)])) :
                     pv \in {BigShl(p, LimbBits - IntBitLen(q[Len(q)]))},
                     qv \in {BigShl(q, LimbBits - IntBitLen(q[Len(q)]))}} : TRUE

FZero == [m |-> <<>>, e |-> 0]

\* The float m * 2^e for the quotient quot of s + mant_dig + 2 or + 3 bits and
\* its remainder: round to mant_dig bits, ties to even
FRoundQuotient(dm, s) ==
    LET k == BigBitLen(dm.q) - mant_dig
        split == BigDivSmall(dm.q, 2 ^ k)
        half == 2 ^ (k - 1)
        up == \/ split.r > half
              \/ split.r = half /\ (dm.r # <<>> \/ split.q[1] % 2 = 1)
        m == IF up THEN BigAdd(split.q, <<1>>) ELSE split.q
    IN  IF BigBitLen(m) > mant_dig
        THEN [m |-> BigDivSmall(m, 2).q, e |-> k - s + 1]
        ELSE [m |-> m, e |-> k - s]

\* The float nearest to p / q, ties to even, for p > 0 and q > 0: the quotient
\* of p * 2^s by q has mant_dig + 2 or mant_dig + 3 bits
FRoundShifted(p, q, s) ==
    CHOOSE x \in {FRoundQuotient(dm, s) :
                     dm \in {BigDivMod(IF s >= 0 THEN BigShl(p, s) ELSE p,
                                       IF s < 0 THEN BigShl(q, -s) ELSE q)}} : TRUE

FRoundValues(p, q) ==
    IF p = <<>> THEN FZero
    ELSE FRoundShifted(p, q, (mant_dig + 2) - (BigBitLen(p) - BigBitLen(q)))

\* The float nearest to p / q
FRound(p, q) == CHOOSE x \in {FRoundValues(pv, qv) : pv \in {p}, qv \in {q}} : TRUE

\* The float nearest to p * 2^e
FRoundScaled(p, e) ==
    IF e >= 0 THEN FRound(BigShl(p, e), <<1>>) ELSE FRound(p, BigShl(<<1>>, -e))

\* float(n), for an int n >= 0
FFromInt(n) == FRound(BigFromInt(n), <<1>>)

\* The mantissa of x on the exponent e <= x.e
FAligned(x, e) == BigShl(x.m, x.e - e)

FAddValues(x, y) ==
    LET e == Min(x.e, y.e) IN FRoundScaled(BigAdd(FAligned(x, e), FAligned(y, e)), e)

FAdd(x, y) == CHOOSE r \in {FAddValues(xv, yv) : xv \in {x}, yv \in {y}} : TRUE

FSubValues(x, y) ==
    LET e == Min(x.e, y.e) IN FRoundScaled(BigSub(FAligned(x, e), FAligned(y, e)), e)

\* x - y, for x >= y
FSub(x, y) == CHOOSE r \in {FSubValues(xv, yv) : xv \in {x}, yv \in {y}} : TRUE

FMulValues(x, y) == FRoundScaled(BigMul(x.m, y.m), x.e + y.e)

FMul(x, y) == CHOOSE r \in {FMulValues(xv, yv) : xv \in {x}, yv \in {y}} : TRUE

FDivValues(x, y) ==
    IF x.e >= y.e THEN FRound(BigShl(x.m, x.e - y.e), y.m)
    ELSE FRound(x.m, BigShl(y.m, y.e - x.e))

FDiv(x, y) == CHOOSE r \in {FDivValues(xv, yv) : xv \in {x}, yv \in {y}} : TRUE

FLessValues(x, y) ==
    LET e == Min(x.e, y.e) IN BigLess(FAligned(x, e), FAligned(y, e))

FLess(x, y) == \E xv \in {x}, yv \in {y} : FLessValues(xv, yv)

FMin(x, y) == IF FLess(y, x) THEN y ELSE x

(***************************************************************************)
(* State.                                                                  *)
(***************************************************************************)
VARIABLES
    supabase_url,   \* settings.supabase_url is set
    job_cache,      \* (n, chunks) pairs the durable store's get_cached_result finds
    now,            \* the clock, in seconds
    progress,       \* job id -> the hash progress:{job_id}
    result,         \* job id -> the key result:{job_id}: None or Some(total)
    idempotency,    \* key -> the key idempotency:{key}: the stored response and its expiry
    db_jobs,        \* job id -> status of the durable store's jobs row ("" when no row)
    db_job_chunks,  \* job id -> the durable store's job_chunks rows of the job
    issued,         \* the job ids uuid4 has produced
    orch,           \* job id -> the orchestrate_range_sum message and its arguments
    chunk,          \* job id -> the compute_chunk tasks of the chord header, in index order
    fin,            \* job id -> position of the chord callback finalize_job
    finalize_runs,  \* job id -> how many times the body of finalize_job was entered
    req,            \* slot -> a create_job handler between its idempotency check and its return
    resp,           \* the response the API returned last
    returned,       \* key -> the accepted create_job responses returned so far, with their time
    observed,       \* job id -> completed_chunks as the last read saw it, when that read showed pending or running
    time_time,      \* time.time(), a float
    limiter,        \* the InMemoryRateLimiter: capacity, refill_rate, buckets, last_cleanup
    clients,        \* ip -> what the client has done so far: its calls and the last result
    stream,         \* one stream_job_events generator: its locals and what it has yielded
    connections,    \* the ConnectionManager's active_connections and what each WebSocket received
    retention,      \* the expiry of each progress key, and where cleanup_old_jobs_async stands
    cancel,         \* one cancel_job request: its position and the jobs row it selected
    active_jobs_gauge  \* the value of the Prometheus gauge active_jobs

vars == <<supabase_url, job_cache, now, progress, result, idempotency, db_jobs, db_job_chunks, issued,
          orch, chunk, fin, finalize_runs, req, resp, returned, observed,
          time_time, limiter, clients, stream, connections, retention, cancel,
          active_jobs_gauge>>

store == <<progress, result, idempotency>>
durable == <<db_jobs, db_job_chunks>>
broker == <<orch, chunk, fin, finalize_runs>>
environment == <<supabase_url, job_cache, now>>
api == <<issued, req, resp, returned, observed>>
rate_limit == <<time_time, limiter, clients>>
\* The parts of the system that the API handlers and the worker tasks do not touch
subsystems == <<rate_limit, stream, connections, retention, cancel>>
metrics == <<active_jobs_gauge>>

\* No progress key has an expiry, and cleanup_old_jobs_async is not running
NoRetention ==
    [expire_at |-> [j \in JobIds |-> None], pc |-> "idle", job_id |-> 0, status |-> "", ttl |-> 0]

\* Redis removes a key when its expiry time has come
Expired(j, t) == retention.expire_at[j] # None /\ retention.expire_at[j][1] <= t

(***************************************************************************)
(* Redis operations on the progress hash.                                  *)
(***************************************************************************)
\* hset(progress_key, mapping={status, total_chunks, completed_chunks, progress, detail})
HSetAll(status, total_chunks, completed_chunks, prog, detail) ==
    [has |-> AllFields, status |-> status, total_chunks |-> total_chunks,
     completed_chunks |-> completed_chunks, progress |-> prog, detail |-> detail]

\* hset(progress_key, mapping={status, detail})
HSetStatusDetail(rec, status, detail) ==
    [rec EXCEPT !.has = @ \cup {"status", "detail"}, !.status = status, !.detail = detail]

\* hset(progress_key, mapping={status, progress, detail})
HSetStatusProgressDetailAndCounter(rec, status, prog, detail) ==
    [rec EXCEPT !.has = @ \cup {"status", "progress", "detail", "completed_chunks"},
                !.status = status, !.progress = prog, !.detail = detail,
                !.completed_chunks = 0]
HSetStatusProgressDetail(rec, status, prog, detail) ==
    [rec EXCEPT !.has = @ \cup {"status", "progress", "detail"},
                !.status = status, !.progress = prog, !.detail = detail]

\* hincrby(progress_key, "completed_chunks", 1): creates the hash and the field when missing
HIncrByLost(rec) == [rec EXCEPT !.has = @ \cup {"completed_chunks"}]
HDecrBy(rec) ==
    [rec EXCEPT !.has = @ \cup {"completed_chunks"}, !.completed_chunks = @ - 1]
HIncrBy(rec) ==
    [rec EXCEPT !.has = @ \cup {"completed_chunks"}, !.completed_chunks = @ + 1]

\* hget(progress_key, "total_chunks"): None when the field is missing
HGetTotalChunks(rec) ==
    IF "total_chunks" \in rec.has THEN Some(rec.total_chunks) ELSE None

(***************************************************************************)
(* tasks.py                                                                *)
(***************************************************************************)
\* _mark_failed: the progress hash after hset(status=failed, detail)
_mark_detail(rec, detail) == HSetStatusDetail(rec, rec.status, detail)
_mark_failed(rec, detail) == HSetStatusDetail(rec, "failed", detail)

\* start_job: the hash it writes before it dispatches
StartJobRecord(n, requested_chunks) ==
    HSetAll("pending", TotalChunks(n, requested_chunks), 0, 0, Detail("accepted", 0, 0))

\* chord(subtasks)(callback): the callback is released when every header task
\* has returned a result.
ChordReleasedByAny(j) ==
    \E i \in 1 .. Len(chunk[j]) : chunk[j][i].pc = "succeeded"
ChordReleased(j) ==
    /\ Len(chunk[j]) > 0
    /\ \A i \in 1 .. Len(chunk[j]) : chunk[j][i].pc = "succeeded"

\* orchestrate_range_sum -> start_job(job_id, n, chunks)
OrchestrateRangeSum(j) ==
    /\ orch[j].state = "queued"
    /\ progress' = [progress EXCEPT ![j] = StartJobRecord(orch[j].n, orch[j].chunks)]
    /\ result' = [result EXCEPT ![j] = None]
    /\ chunk' = [chunk EXCEPT ![j] = Subtasks(orch[j].n, orch[j].chunks)]
    /\ fin' = [fin EXCEPT ![j] = "armed"]
    /\ orch' = [orch EXCEPT ![j].state = "done"]
    /\ UNCHANGED <<metrics, subsystems, idempotency, finalize_runs, durable, environment, api>>

\* start_job call by call.  Lines 83-96: the writes of the progress hash and
\* of the result key
StartJobHSet(j) ==
    /\ orch[j].state = "queued"
    /\ progress' = [progress EXCEPT ![j] = StartJobRecord(orch[j].n, orch[j].chunks)]
    /\ result' = [result EXCEPT ![j] = None]
    /\ orch' = [orch EXCEPT ![j].state = "recorded"]
    /\ UNCHANGED <<metrics, subsystems, idempotency, chunk, fin, finalize_runs, durable, environment, api>>

\* Lines 98-112: the signatures and the dispatch of the chord
StartJobChord(j) ==
    /\ orch[j].state = "recorded"
    /\ chunk' = [chunk EXCEPT ![j] = Subtasks(orch[j].n, orch[j].chunks)]
    /\ fin' = [fin EXCEPT ![j] = "armed"]
    /\ orch' = [orch EXCEPT ![j].state = "done"]
    /\ UNCHANGED <<metrics, subsystems, store, finalize_runs, durable, environment, api>>

\* orchestrate_range_sum, lines 113-122: start_job raises (a Redis call of lines
\* 86-98 or the chord dispatch of line 110 fails), before or after its progress
\* write.  The task has no retry and no handler: it fails and nothing follows.
OrchestrateRaise(j, wrote) ==
    /\ orch[j].state = "queued"
    /\ progress' = IF wrote
                   THEN [progress EXCEPT ![j] = StartJobRecord(orch[j].n, orch[j].chunks)]
                   ELSE progress
    /\ result' = IF wrote THEN [result EXCEPT ![j] = None] ELSE result
    /\ orch' = [orch EXCEPT ![j].state = "failed"]
    /\ UNCHANGED <<metrics, subsystems, idempotency, chunk, fin, finalize_runs, durable, environment, api>>

\* compute_chunk, lines 132-135: the subtotal and the atomic increment
ComputeChunkIncr(j, i) ==
    /\ i \in 1 .. Len(chunk[j])
    /\ chunk[j][i].pc = "queued"
    /\ progress' = [progress EXCEPT ![j] = HIncrBy(@)]
    /\ chunk' = [chunk EXCEPT ![j][i].pc = "incremented",
                              ![j][i].completed = progress[j].completed_chunks + 1]
    /\ UNCHANGED <<metrics, subsystems, result, idempotency, orch, fin, finalize_runs, durable, environment, api>>

\* compute_chunk, lines 136-138: total_chunks and progress of this execution
ChunkTotal(rec) ==
    LET total_chunks_raw == HGetTotalChunks(rec)
    IN  Max(IF total_chunks_raw = None THEN 1 ELSE total_chunks_raw[1], 1)

\* compute_chunk, lines 155-160: the job_chunks rows after the update of the
\* rows with this chunk_index
ChunkRowsUpdate(j, chunk_index, subtotal, sb_ok) ==
    IF supabase_url /\ sb_ok
    THEN [db_job_chunks EXCEPT ![j] =
             {IF row.chunk_index = chunk_index
              THEN [row EXCEPT !.status = "completed", !.result = Some(subtotal)]
              ELSE row : row \in @}]
    ELSE db_job_chunks

\* compute_chunk, lines 149-169: the durable store's jobs row after the update
\* (no row, no change; a failed call is logged and dropped)
DbUpdate(j, status, sb_ok) ==
    IF supabase_url /\ sb_ok /\ db_jobs[j] # ""
    THEN [db_jobs EXCEPT ![j] = status]
    ELSE db_jobs

\* What the task does once its body has raised exc with the request's retries:
\* self.retry sends the task again while retries < max_retries, and the task
\* fails otherwise.
AfterRaiseNoRetry(c) == [c EXCEPT !.pc = "failed"]
AfterRaise(c) ==
    IF c.retries < max_retries
    THEN [c EXCEPT !.pc = "queued", !.retries = @ + 1, !.completed = 0]
    ELSE [c EXCEPT !.pc = "failed"]

\* compute_chunk, lines 149-169: whether the block of the durable store's calls
\* raises into the task.  Its except clause of line 168 catches every exception
\* and logs it.
SupabaseBlockRaisesOnFailure(sb_ok) == ~sb_ok
SupabaseBlockRaises(sb_ok) == FALSE

\* compute_chunk, lines 136-179: the progress write and the return
ComputeChunkWrite(j, i, sb_ok) ==
    /\ i \in 1 .. Len(chunk[j])
    /\ chunk[j][i].pc = "incremented"
    /\ LET total_chunks == ChunkTotal(progress[j])
           prog == Fmt4(chunk[j][i].completed, total_chunks)
       IN  progress' = [progress EXCEPT ![j] =
               HSetStatusProgressDetail(@, "running", prog,
                   Detail("processed", chunk[j][i].index + 1, total_chunks))]
    /\ db_jobs' = DbUpdate(j, "running", sb_ok)
    /\ db_job_chunks' = ChunkRowsUpdate(j, chunk[j][i].index,
                                        RangeSum(chunk[j][i].start, chunk[j][i].end), sb_ok)
    /\ chunk' = IF SupabaseBlockRaises(sb_ok)
                THEN [chunk EXCEPT ![j][i] = AfterRaise(@)]
                ELSE [chunk EXCEPT ![j][i].pc = "succeeded",
                                   ![j][i].ret = RangeSum(chunk[j][i].start, chunk[j][i].end)]
    /\ UNCHANGED <<metrics, subsystems, result, idempotency, orch, fin, finalize_runs, environment, api>>

\* compute_chunk, lines 187-202: an exception raised by a Redis call, before
\* or after the increment
ComputeChunkRaise(j, i) ==
    /\ i \in 1 .. Len(chunk[j])
    /\ chunk[j][i].pc \in {"queued", "incremented"}
    /\ IF chunk[j][i].retries < max_retries
       THEN UNCHANGED <<progress, result>>
       ELSE /\ progress' = [progress EXCEPT ![j] =
                   _mark_failed(@, Detail("failed_after_retries", chunk[j][i].index + 1, max_retries))]
            /\ result' = [result EXCEPT ![j] = None]
    /\ chunk' = [chunk EXCEPT ![j][i] = AfterRaise(@)]
    /\ UNCHANGED <<metrics, subsystems, idempotency, orch, fin, finalize_runs, durable, environment, api>>

\* compute_chunk, lines 180-186: SoftTimeLimitExceeded marks the job failed and
\* is raised again; the task's autoretry_for=(Exception,) of line 125 then
\* handles it as it handles every exception.
ComputeChunkTimeLimit(j, i) ==
    /\ i \in 1 .. Len(chunk[j])
    /\ chunk[j][i].pc \in {"queued", "incremented"}
    /\ progress' = [progress EXCEPT ![j] =
           _mark_failed(@, Detail("time_limit", chunk[j][i].index + 1, 0))]
    /\ result' = [result EXCEPT ![j] = None]
    /\ chunk' = [chunk EXCEPT ![j][i] = AfterRaise(@)]
    /\ UNCHANGED <<metrics, subsystems, idempotency, orch, fin, finalize_runs, durable, environment, api>>

\* The results the chord hands to its callback: the header's return values in order
ChordResults(j) == [i \in 1 .. Len(chunk[j]) |-> chunk[j][i].ret]

\* finalize_job, lines 210-223: the total and the progress write
FinalizeRecord(rec, results) ==
    LET total_chunks_raw == HGetTotalChunks(rec)
        total_chunks == IF total_chunks_raw = None THEN Len(results) ELSE total_chunks_raw[1]
    IN  [rec EXCEPT !.has = @ \cup {"status", "progress", "completed_chunks", "detail"},
                    !.status = "completed", !.progress = 10000,
                    !.completed_chunks = total_chunks,
                    !.detail = Detail("finished", 0, 0)]

FinalizeJobHset(j) ==
    /\ fin[j] = "armed"
    /\ ChordReleased(j)
    /\ progress' = [progress EXCEPT ![j] = FinalizeRecord(@, ChordResults(j))]
    /\ fin' = [fin EXCEPT ![j] = "wrote"]
    /\ finalize_runs' = [finalize_runs EXCEPT ![j] = @ + 1]
    /\ UNCHANGED <<metrics, subsystems, result, idempotency, orch, chunk, durable, environment, api>>

\* finalize_job, lines 224-245: the result key, the durable store, the return
FinalizeJobSet(j, sb_ok) ==
    /\ fin[j] = "wrote"
    /\ result' = [result EXCEPT ![j] = Some(SeqSum(ChordResults(j)))]
    /\ db_jobs' = DbUpdate(j, "completed", sb_ok)
    /\ UNCHANGED db_job_chunks
    /\ fin' = [fin EXCEPT ![j] = "done"]
    /\ UNCHANGED <<metrics, subsystems, progress, idempotency, orch, chunk, finalize_runs, environment, api>>

\* finalize_job, lines 246-249: an exception raised by a Redis call, before or
\* after the progress write
FinalizeJobRaise(j) ==
    /\ \/ fin[j] = "armed" /\ ChordReleased(j)
       \/ fin[j] = "wrote"
    /\ progress' = [progress EXCEPT ![j] =
           _mark_failed(@, Detail("aggregation_failed", 0, 0))]
    /\ result' = [result EXCEPT ![j] = None]
    /\ finalize_runs' = [finalize_runs EXCEPT ![j] = IF fin[j] = "armed" THEN @ + 1 ELSE @]
    /\ fin' = [fin EXCEPT ![j] = "failed"]
    /\ UNCHANGED <<metrics, subsystems, idempotency, orch, chunk, durable, environment, api>>

(***************************************************************************)
(* main.py: the API handlers.                                              *)
(***************************************************************************)
Keys == 1 .. MaxKeys
Slots == 1 .. MaxRequests

\* schemas.JobCreated
JobCreated(job_id, status, cached, res) ==
    [job_id |-> job_id, status |-> status, cached |-> cached, result |-> res]

\* schemas.JobStatus
JobStatus(job_id, status, prog, completed_chunks, total_chunks, res, detail) ==
    [job_id |-> job_id, status |-> status, progress |-> prog,
     completed_chunks |-> completed_chunks, total_chunks |-> total_chunks,
     result |-> res, detail |-> detail]

\* An error response carries only its detail.
ErrorBody(job_id) == [job_id |-> job_id]

NoResponse == [seq |-> 0, op |-> "", args |-> <<>>, code |-> 0, body |-> ErrorBody(0)]

\* The response of this step, with the operation and the arguments of its
\* request; seq alternates so that two equal responses in a row are two
\* responses.
Respond(op, args, code, body) ==
    resp' = [seq |-> 1 - resp.seq, op |-> op, args |-> args, code |-> code, body |-> body]

IdleRequest == [pc |-> "idle", n |-> 0, chunks |-> 0, key |-> 0, user |-> 0, prior |-> {}]

\* schemas.JobRequest: n: conint(ge=1), chunks: conint(ge=1, le=1024)
JobRequestValid(n, chunks) == n >= 1 /\ chunks >= 1 /\ chunks <= schema_chunks_le

\* create_job, lines 159-169
CreateJobBoundsNoUpper(n, chunks) == n > 0 /\ chunks > 0
CreateJobBounds(n, chunks) ==
    /\ ~(n <= 0 \/ n > max_job_n)
    /\ ~(chunks <= 0 \/ chunks > max_chunks)

\* create_demo_job, lines 632-642
CreateDemoJobBounds(n, chunks) ==
    /\ ~(n <= 0 \/ n > demo_max_n)
    /\ ~(chunks <= 0 \/ chunks > demo_max_chunks)

\* redis.setex(idempotency:{key}, ttl, body), lines 272-277: the key holds the
\* body whatever it held before
SetNx(held, body, expires) ==
    IF held = None THEN Some([body |-> body, expires |-> expires]) ELSE held
SetEx(held, body, expires) == Some([body |-> body, expires |-> expires])

\* redis.get(idempotency:{key}): None once the key has expired
IdempotencyGet(key) ==
    IF idempotency[key] # None /\ now < idempotency[key][1].expires
    THEN Some(idempotency[key][1].body)
    ELSE None

\* The accepted responses that earlier create_job requests with this key, not
\* themselves replays, were given less than 24 hours ago.
PriorResponses(key) ==
    IF key = 0 THEN {}
    ELSE {p.body : p \in {q \in returned[key] : now - q.time < idempotency_ttl}}

\* monitoring.py, lines 313-316: the effect of record_job_created on
\* active_jobs_gauge.  record_job_completed and record_job_failed (lines
\* 319-329), which decrement the gauge, are imported by main.py and called by
\* no module; the worker tasks run in other processes and do not import them.
record_job_created(gauge) == gauge + 1

\* create_job, lines 158-181: validation and the idempotency check.  key = 0:
\* the request has no Idempotency-Key header; user = 0: no credentials.
CreateJobCheck(r, n, chunks, key, user) ==
    /\ req[r].pc = "idle"
    /\ IF ~JobRequestValid(n, chunks)
       THEN Respond("create_job", <<n, chunks, key>>, 422, ErrorBody(0)) /\ UNCHANGED req
       ELSE IF ~CreateJobBounds(n, chunks)
       THEN Respond("create_job", <<n, chunks, key>>, 400, ErrorBody(0)) /\ UNCHANGED req
       ELSE IF key # 0 /\ IdempotencyGet(key) # None
       THEN Respond("create_job", <<n, chunks, key>>, 202, IdempotencyGet(key)[1]) /\ UNCHANGED req
       ELSE /\ req' = [req EXCEPT ![r] =
                   [pc |-> "checked", n |-> n, chunks |-> chunks, key |-> key,
                    user |-> user, prior |-> PriorResponses(key)]]
            /\ UNCHANGED resp
    /\ UNCHANGED <<metrics, subsystems, store, durable, broker, environment, issued, returned, observed>>

\* The value the durable store's cache holds for (n, chunks)
CachedResult(n) == (n * (n + 1)) \div 2

\* create_job, lines 251-263: the initial progress hash
CreateJobNoRecord(chunks) == NoRecord
CreateJobRecord(chunks) == HSetAll("pending", chunks, 0, 0, Detail("queued", 0, 0))

\* create_job, lines 229-242: the job_chunks rows it inserts
JobChunks(n, chunks) ==
    LET chunk_size == n \div chunks
    IN  {[chunk_index |-> i,
          start_range |-> i * chunk_size + 1,
          end_range |-> IF i < chunks - 1 THEN (i + 1) * chunk_size ELSE n,
          status |-> "pending",
          result |-> None] : i \in 0 .. chunks - 1}

\* create_job, lines 183-279: the new job.  sb_ok: the durable store answers.
CreateJobFinish(r, job_id, sb_ok) ==
    /\ req[r].pc = "checked"
    /\ job_id \notin issued
    /\ issued' = issued \cup {job_id}
    /\ LET q == req[r]
           use_db == supabase_url /\ q.user # 0 /\ sb_ok
           cached == use_db /\ <<q.n, q.chunks>> \in job_cache
           body == IF cached
                   THEN JobCreated(job_id, "completed", TRUE, Some(CachedResult(q.n)))
                   ELSE JobCreated(job_id, "pending", FALSE, None)
       IN  /\ db_jobs' = IF use_db
                         THEN [db_jobs EXCEPT ![job_id] = IF cached THEN "completed" ELSE "pending"]
                         ELSE db_jobs
           /\ db_job_chunks' = IF use_db /\ ~cached
                               THEN [db_job_chunks EXCEPT ![job_id] = JobChunks(q.n, q.chunks)]
                               ELSE db_job_chunks
           /\ progress' = IF cached THEN progress
                          ELSE [progress EXCEPT ![job_id] = CreateJobRecord(q.chunks)]
           /\ orch' = IF cached THEN orch
                      ELSE [orch EXCEPT ![job_id] =
                               [state |-> "queued", n |-> q.n, chunks |-> q.chunks]]
           /\ idempotency' = IF cached \/ q.key = 0 THEN idempotency
                             ELSE [idempotency EXCEPT ![q.key] =
                                      SetEx(@, body, now + idempotency_ttl)]
           /\ returned' = IF q.key = 0 THEN returned
                          ELSE [returned EXCEPT ![q.key] = @ \cup {[body |-> body, time |-> now]}]
           /\ Respond("create_job", <<q.n, q.chunks, q.key>>, 202, body)
           /\ active_jobs_gauge' = IF cached THEN active_jobs_gauge
                                    ELSE record_job_created(active_jobs_gauge)
    /\ req' = [req EXCEPT ![r] = IdleRequest]
    /\ UNCHANGED <<subsystems, result, chunk, fin, finalize_runs, environment, observed>>

\* create_job await by await, without the durable store.  Lines 184 and
\* 249-263: the job id, the metric and the hset of the progress hash
CreateJobHSet(r, job_id) ==
    /\ req[r].pc = "checked"
    /\ ~(supabase_url /\ req[r].user # 0)
    /\ job_id \notin issued
    /\ issued' = issued \cup {job_id}
    /\ progress' = [progress EXCEPT ![job_id] = CreateJobRecord(req[r].chunks)]
    /\ req' = [req EXCEPT ![r].pc = "recorded"]
    /\ active_jobs_gauge' = record_job_created(active_jobs_gauge)
    /\ UNCHANGED <<subsystems, result, idempotency, durable, broker, environment,
                   resp, returned, observed>>

\* Lines 266-279: the enqueue of orchestrate_range_sum, the idempotency entry
\* and the response
CreateJobDelay(r, job_id) ==
    /\ req[r].pc = "recorded"
    /\ job_id \in issued /\ orch[job_id].state = "none"
    /\ LET q == req[r]
           body == JobCreated(job_id, "pending", FALSE, None)
       IN  /\ orch' = [orch EXCEPT ![job_id] =
                           [state |-> "queued", n |-> q.n, chunks |-> q.chunks]]
           /\ idempotency' = IF q.key = 0 THEN idempotency
                             ELSE [idempotency EXCEPT ![q.key] =
                                      SetEx(@, body, now + idempotency_ttl)]
           /\ returned' = IF q.key = 0 THEN returned
                          ELSE [returned EXCEPT ![q.key] = @ \cup {[body |-> body, time |-> now]}]
           /\ Respond("create_job", <<q.n, q.chunks, q.key>>, 202, body)
    /\ req' = [req EXCEPT ![r] = IdleRequest]
    /\ UNCHANGED <<metrics, subsystems, progress, result, durable, chunk, fin, finalize_runs,
                   environment, issued, observed>>

\* create_demo_job, lines 621-663
CreateDemoJob(n, chunks, job_id) ==
    /\ job_id \notin issued
    /\ IF ~JobRequestValid(n, chunks)
       THEN Respond("create_demo_job", <<n, chunks>>, 422, ErrorBody(0))
            /\ UNCHANGED <<progress, orch, issued, metrics>>
       ELSE IF ~CreateDemoJobBounds(n, chunks)
       THEN Respond("create_demo_job", <<n, chunks>>, 400, ErrorBody(0))
            /\ UNCHANGED <<progress, orch, issued, metrics>>
       ELSE /\ issued' = issued \cup {job_id}
            /\ active_jobs_gauge' = record_job_created(active_jobs_gauge)
            /\ progress' = [progress EXCEPT ![job_id] =
                   HSetAll("pending", chunks, 0, 0, Detail("demo_queued", 0, 0))]
            /\ orch' = [orch EXCEPT ![job_id] =
                   [state |-> "queued", n |-> n, chunks |-> chunks]]
            /\ Respond("create_demo_job", <<n, chunks>>, 202, JobCreated(job_id, "pending", FALSE, None))
    /\ UNCHANGED <<subsystems, result, idempotency, durable, chunk, fin, finalize_runs, environment,
                   req, returned, observed>>

\* get_job_status, lines 306-330, and get_demo_job_status, lines 684-708
StatusBody(job_id) ==
    LET progress_raw == progress[job_id]
        total_chunks == IF "total_chunks" \in progress_raw.has
                        THEN progress_raw.total_chunks ELSE 1
        completed_chunks == IF "completed_chunks" \in progress_raw.has
                            THEN progress_raw.completed_chunks ELSE 0
        progress_float == IF "progress" \in progress_raw.has THEN progress_raw.progress ELSE 0
        status_value == IF "status" \in progress_raw.has THEN progress_raw.status ELSE "unknown"
        detail_value == IF "detail" \in progress_raw.has THEN Some(progress_raw.detail) ELSE None
    IN  JobStatus(job_id, status_value, Min(Max(progress_float, 0), 10000), completed_chunks,
                  IF total_chunks > 0 THEN total_chunks ELSE 1, result[job_id], detail_value)

\* The existence test of lines 302-304 and 680-682
StatusFoundAlways(job_id) == TRUE
StatusFound(job_id) == Exists(progress[job_id])

StatusQuery(op, job_id) ==
    /\ IF ~StatusFound(job_id)
       THEN Respond(op, <<job_id>>, 404, ErrorBody(job_id))
       ELSE Respond(op, <<job_id>>, 200, StatusBody(job_id))
    /\ UNCHANGED <<metrics, subsystems, store, durable, broker, environment, issued, req, returned, observed>>

GetJobStatus(job_id) == StatusQuery("get_job_status", job_id)

GetDemoJobStatus(job_id) == StatusQuery("get_demo_job_status", job_id)

\* cancel_job, lines 390-434, for the user who owns the jobs row if there is
\* one: 404 without a row; a pending or running row becomes cancelled; 204.
\* Only the durable store is read and written.
CancelJob(job_id) ==
    /\ supabase_url
    /\ IF db_jobs[job_id] = ""
       THEN /\ Respond("cancel_job", <<job_id>>, 404, ErrorBody(job_id))
            /\ UNCHANGED db_jobs
       ELSE /\ Respond("cancel_job", <<job_id>>, 204, ErrorBody(job_id))
            /\ db_jobs' = IF db_jobs[job_id] \in {"pending", "running"}
                          THEN [db_jobs EXCEPT ![job_id] = "cancelled"]
                          ELSE db_jobs
    /\ UNCHANGED <<metrics, subsystems, store, db_job_chunks, broker, environment, issued, req,
                   returned, observed>>

\* cancel_job call by call.  Lines 402-413: the select of the jobs row
NoCancel == [pc |-> "idle", job_id |-> 0, status |-> ""]

CancelJobSelect(job_id) ==
    /\ supabase_url
    /\ cancel.pc = "idle"
    /\ IF db_jobs[job_id] = ""
       THEN /\ Respond("cancel_job", <<job_id>>, 404, ErrorBody(job_id))
            /\ UNCHANGED cancel
       ELSE /\ cancel' = [pc |-> "selected", job_id |-> job_id, status |-> db_jobs[job_id]]
            /\ UNCHANGED resp
    /\ UNCHANGED <<metrics, rate_limit, stream, connections, retention, store, durable, broker,
                   environment, issued, req, returned, observed>>

\* Lines 415-434: the update of the row, decided on the status that was selected
CancelJobUpdate ==
    /\ cancel.pc = "selected"
    /\ db_jobs' = IF cancel.status \in {"pending", "running"}
                  THEN [db_jobs EXCEPT ![cancel.job_id] = "cancelled"]
                  ELSE db_jobs
    /\ Respond("cancel_job", <<cancel.job_id>>, 204, ErrorBody(cancel.job_id))
    /\ cancel' = NoCancel
    /\ UNCHANGED <<metrics, rate_limit, stream, connections, retention, store, db_job_chunks, broker,
                   environment, issued, req, returned, observed>>

\* A read of the progress hash (hgetall, as in lines 306-308) by a poller,
\* which keeps completed_chunks when the status it read is pending or running.
ReadProgress(job_id) ==
    /\ Exists(progress[job_id])
    /\ observed' = [observed EXCEPT ![job_id] =
           IF progress[job_id].status \in InFlight
           THEN Some(progress[job_id].completed_chunks)
           ELSE None]
    /\ UNCHANGED <<metrics, subsystems, store, durable, broker, environment, issued, req, resp, returned>>

\* The clock advances.
Tick ==
    /\ now < MaxTicks * TickStep
    /\ now' = now + TickStep
    /\ progress' = [j \in JobIds |-> IF Expired(j, now') THEN NoRecord ELSE progress[j]]
    /\ retention' = [retention EXCEPT
           !.expire_at = [j \in JobIds |-> IF Expired(j, now') THEN None ELSE @[j]]]
    /\ UNCHANGED <<metrics, cancel, rate_limit, stream, connections, supabase_url, job_cache, result, idempotency,
                   durable, broker, api>>

(***************************************************************************)
(* main.py, stream_job_events: the generator behind GET /jobs/{id}/events. *)
(* Its awaits are the points where the workers run: the exists of line     *)
(* 458, the hgetall of line 469, the get of line 481 and the sleep of line *)
(* 505 (which reads nothing, and is taken with the step before it).        *)
(***************************************************************************)
max_iterations == 300

\* yielded: the kinds of events yielded so far.  emitted: those yielded by the
\* last step.  sent: the state carried by the last status event yielded.
NoStream ==
    [pc |-> "none", job_id |-> 0, iteration |-> 0, last_status |-> None,
     progress_raw |-> NoRecord, status_update |-> None,
     yielded |-> {}, emitted |-> <<>>, sent |-> None]

\* lines 452-465: the existence test and the locals
StreamOpen(job_id) ==
    /\ stream.pc = "none"
    /\ stream' = IF ~Exists(progress[job_id])
                 THEN [stream EXCEPT !.pc = "closed", !.job_id = job_id,
                                     !.yielded = {"error"}, !.emitted = <<"error">>]
                 ELSE [stream EXCEPT !.pc = "loop", !.job_id = job_id]
    /\ UNCHANGED <<metrics, cancel, rate_limit, connections, retention, store, durable, broker, environment, api>>

\* lines 467-471: the loop test and the read of the progress hash
StreamHGetAll ==
    /\ stream.pc = "loop"
    /\ stream.iteration < max_iterations
    /\ stream' = IF ~Exists(progress[stream.job_id])
                 THEN [stream EXCEPT !.pc = "closed", !.emitted = <<>>]
                 ELSE [stream EXCEPT !.pc = "read", !.progress_raw = progress[stream.job_id],
                                     !.emitted = <<>>]
    /\ UNCHANGED <<metrics, cancel, rate_limit, connections, retention, store, durable, broker, environment, api>>

\* lines 473-493: the status update built from the hash and the result key
StatusUpdate(job_id, progress_raw, result_raw) ==
    [job_id |-> job_id,
     status |-> IF "status" \in progress_raw.has THEN progress_raw.status ELSE "unknown",
     progress |-> IF "progress" \in progress_raw.has THEN progress_raw.progress ELSE 0,
     completed_chunks |-> IF "completed_chunks" \in progress_raw.has
                          THEN progress_raw.completed_chunks ELSE 0,
     total_chunks |-> IF "total_chunks" \in progress_raw.has THEN progress_raw.total_chunks ELSE 1,
     result |-> result_raw,
     detail |-> IF "detail" \in progress_raw.has THEN Some(progress_raw.detail) ELSE None]

\* line 496: whether the update is yielded
StatusChangedAlways(status_update, last_status) == TRUE
StatusChanged(status_update, last_status) == Some(status_update) # last_status

\* line 501: whether the stream is done
StreamDoneNever(status_value) == FALSE
StreamDone(status_value) == status_value \in {"completed", "failed", "cancelled"}

\* lines 480-510: the read of the result, the events of this poll, the sleep
\* and, when the loop ends by its test, the timeout event
StreamGet ==
    /\ stream.pc = "read"
    /\ LET status_update == StatusUpdate(stream.job_id, stream.progress_raw, result[stream.job_id])
           changed == StatusChanged(status_update, stream.last_status)
           done == StreamDone(status_update.status)
           iteration == IF done THEN stream.iteration ELSE stream.iteration + 1
           timeout == iteration >= max_iterations
           events == (IF changed THEN <<"status">> ELSE <<>>) \o
                     (IF done THEN <<"done">> ELSE <<>>) \o
                     (IF timeout THEN <<"timeout">> ELSE <<>>)
       IN  stream' = [stream EXCEPT
               !.pc = IF done \/ timeout THEN "closed" ELSE "loop",
               !.iteration = iteration,
               !.status_update = Some(status_update),
               !.last_status = IF changed THEN Some(status_update) ELSE @,
               !.sent = IF changed THEN Some(status_update) ELSE @,
               !.emitted = events,
               !.yielded = @ \cup {events[k] : k \in 1 .. Len(events)}]
    /\ UNCHANGED <<metrics, cancel, rate_limit, connections, retention, store, durable, broker, environment, api>>

(***************************************************************************)
(* cleanup.py: cleanup_old_jobs_async over the progress keys.  Its loops   *)
(* over the result keys and the idempotency keys, lines 61-80, touch no    *)
(* progress key and are left out.                                          *)
(***************************************************************************)
\* cleanup_old_jobs_async, lines 41-44: scan_iter yields the key of a job and
\* hgetall reads its hash
CleanupHGetAll(job_id) ==
    /\ retention.pc = "idle"
    /\ Exists(progress[job_id])
    /\ retention' = [retention EXCEPT
           !.pc = "read", !.job_id = job_id, !.status = progress[job_id].status]
    /\ UNCHANGED <<metrics, cancel, rate_limit, stream, connections, store, durable, broker, environment, api>>

\* cleanup_old_jobs_async, lines 45-51: the status test and redis.ttl, which
\* is -1 for a key without expiry and -2 for a key that is gone
CleanupTtl ==
    /\ retention.pc = "read"
    /\ retention' = [retention EXCEPT
           !.pc = IF retention.status \in Terminal THEN "ttl" ELSE "idle",
           !.ttl = IF ~Exists(progress[retention.job_id]) THEN -2
                   ELSE IF retention.expire_at[retention.job_id] = None THEN -1
                   ELSE retention.expire_at[retention.job_id][1] - now]
    /\ UNCHANGED <<metrics, cancel, rate_limit, stream, connections, store, durable, broker, environment, api>>

\* cleanup_old_jobs_async, lines 52-55: redis.expire on a key whose ttl was -1;
\* it does nothing to a key that is gone
CleanupExpire ==
    /\ retention.pc = "ttl"
    /\ retention' = [retention EXCEPT
           !.pc = "idle",
           !.expire_at[retention.job_id] =
               IF retention.ttl = -1 /\ Exists(progress[retention.job_id])
               THEN Some(now + retention_hours * 3600) ELSE @]
    /\ UNCHANGED <<metrics, cancel, rate_limit, stream, connections, store, durable, broker, environment, api>>

(***************************************************************************)
(* websocket_manager.py and the endpoint /ws/{job_id} of main.py.          *)
(***************************************************************************)
WebSockets == 1 .. MaxWebSockets

\* One call of ConnectionManager.send_job_update: where it stands, the job,
\* the message, the size the set iterator of line 53 remembers (used), the
\* subscribers at the call (initial), the connections the loop has taken so
\* far (visited), the one whose send_text is awaited (current), the set of
\* line 51 (disconnected), the connections whose send_text returned
\* (delivered), and whether disconnect deleted the job's set meanwhile
NoUpdate ==
    [pc |-> "idle", job_id |-> 0, message |-> NoRecord, used |-> 0, initial |-> {},
     visited |-> {}, current |-> 0, disconnected |-> {}, delivered |-> {},
     dropped |-> FALSE]

\* handle_websocket_connection of one WebSocket: not started, running for a
\* job and a user, or ended
NoHandler == [state |-> "none", job_id |-> 0, user_id |-> 0]

\* ConnectionManager.__init__, lines 13-17, for the sockets S: no message on
\* any socket, no handler and no call of send_job_update.  job_keys and
\* user_keys are the keys of the two dictionaries; a key can be mapped to an
\* empty set.
Connections(S) ==
    [active_connections |-> [j \in JobIds |-> {}],
     job_keys |-> {},
     user_connections |-> [u \in {1} |-> {}],
     user_keys |-> {},
     handler |-> [w \in S |-> NoHandler],
     received |-> [w \in S |-> {}],
     update |-> NoUpdate]

NoConnections == Connections(WebSockets)

JobUpdate(data) == [type |-> "job_update", data |-> data]
Message(type) == [type |-> type, data |-> NoRecord]

\* ConnectionManager.send_job_update, lines 47-55: the test of line 49, the
\* message, the empty set of line 51, and the loop of line 53 up to its first
\* await.  No handler and no task of the repository calls it.
send_job_update(job_id, data) ==
    /\ connections.update.pc # "sending"
    /\ LET S == connections.active_connections[job_id]
           call == [NoUpdate EXCEPT !.job_id = job_id, !.message = JobUpdate(data)]
       IN  IF job_id \notin connections.job_keys \/ S = {}
           THEN connections' = [connections EXCEPT !.update = [call EXCEPT !.pc = "returned"]]
           ELSE \E c \in S :
                    connections' = [connections EXCEPT !.update =
                        [call EXCEPT !.pc = "sending", !.used = Cardinality(S), !.initial = S,
                                     !.visited = {c}, !.current = c]]
    /\ UNCHANGED <<metrics, cancel, rate_limit, stream, retention, store, durable, broker, environment, api>>

\* ConnectionManager.send_job_update, lines 53-61: the awaited send_text
\* returns (ok) or raises, and the loop goes on to its next await or to its
\* end.  The set iterator raises RuntimeError when the set's size is no longer
\* the one it remembers; a connection added during the iteration may or may
\* not be reached.  Lines 60-61 run without an await.
SendText(ok) ==
    /\ connections.update.pc = "sending"
    /\ LET u == connections.update
           c == u.current
           S == connections.active_connections[u.job_id]
           after == [u EXCEPT !.current = 0,
                              !.delivered = IF ok THEN @ \cup {c} ELSE @,
                              !.disconnected = IF ok THEN @ ELSE @ \cup {c}]
           sent == [connections EXCEPT
                       !.received[c] = IF ok THEN @ \cup {u.message} ELSE @]
           rest == S \ u.visited
       IN  IF u.dropped \/ Cardinality(S) # u.used
           THEN connections' = [sent EXCEPT !.update = [after EXCEPT !.pc = "raised"]]
           ELSE \/ /\ rest \cap u.initial = {}
                   /\ connections' = [sent EXCEPT
                          !.active_connections[u.job_id] = @ \ after.disconnected,
                          !.update = [after EXCEPT !.pc = "returned"]]
                \/ \E d \in rest :
                       connections' = [sent EXCEPT !.update =
                           [after EXCEPT !.current = d, !.visited = @ \cup {d}]]
    /\ UNCHANGED <<metrics, cancel, rate_limit, stream, retention, store, durable, broker, environment, api>>

\* websocket_endpoint, main.py lines 527-564, for a valid token whose user
\* (user 1) has the jobs row, then manager.connect, lines 19-31, and the
\* confirmation of handle_websocket_connection, lines 118-126
WebsocketEndpoint(w, job_id) ==
    /\ supabase_url
    /\ db_jobs[job_id] # ""
    /\ connections.handler[w].state = "none"
    /\ connections' = [connections EXCEPT
           !.active_connections[job_id] = @ \cup {w},
           !.job_keys = @ \cup {job_id},
           !.user_connections[1] = @ \cup {w},
           !.user_keys = @ \cup {1},
           !.handler[w] = [state |-> "running", job_id |-> job_id, user_id |-> 1],
           !.received[w] = {Message("connected")}]
    /\ UNCHANGED <<metrics, cancel, rate_limit, stream, retention, store, durable, broker, environment, api>>

\* handle_websocket_connection, lines 129-146: a ping is answered, 30 seconds
\* of silence are followed by a heartbeat
WebsocketReceive(w, job_id, type) ==
    /\ connections.handler[w] = [state |-> "running", job_id |-> job_id, user_id |-> 1]
    /\ connections' = [connections EXCEPT !.received[w] = @ \cup {Message(type)}]
    /\ UNCHANGED <<metrics, cancel, rate_limit, stream, retention, store, durable, broker, environment, api>>

\* handle_websocket_connection, lines 148-153, and ConnectionManager.disconnect,
\* lines 33-45: a set is deleted with its key when it becomes empty
WebsocketDisconnect(w, job_id) ==
    /\ connections.handler[w] = [state |-> "running", job_id |-> job_id, user_id |-> 1]
    /\ LET job_set == connections.active_connections[job_id] \ {w}
           user_set == connections.user_connections[1] \ {w}
           job_deleted == job_id \in connections.job_keys /\ job_set = {}
           user_deleted == 1 \in connections.user_keys /\ user_set = {}
       IN  connections' = [connections EXCEPT
               !.active_connections[job_id] = job_set,
               !.job_keys = IF job_deleted THEN @ \ {job_id} ELSE @,
               !.user_connections[1] = user_set,
               !.user_keys = IF user_deleted THEN @ \ {1} ELSE @,
               !.handler[w].state = "ended",
               !.update.dropped = @ \/ ( /\ connections.update.pc = "sending"
                                         /\ connections.update.job_id = job_id
                                         /\ job_deleted )]
    /\ UNCHANGED <<metrics, cancel, rate_limit, stream, retention, store, durable, broker, environment, api>>

(***************************************************************************)
(* rate_limiter.py: the token bucket limiter.  Every call reads time.time() *)
(* once; the clock moves between calls only.                               *)
(***************************************************************************)
requests_per_minute == 10
cleanup_interval == 600
Ips == 1 .. MaxIps

\* InMemoryRateLimiter.__init__, lines 87-92
NewLimiter(capacity, t) ==
    [capacity |-> capacity,
     refill_rate |-> FDiv(FFromInt(capacity), FFromInt(60)),
     buckets |-> [ip \in Ips |-> None],
     last_cleanup |-> t]

\* A client that has not called yet.  admitted holds the times of its admitted
\* calls.  solo is the limiter of a second run in
\* which this client makes the same calls at the same times and no other
\* client calls at all, with the answer of its last call.
NewSolo(ip, capacity, t) ==
    [limiter |-> [NewLimiter(capacity, t) EXCEPT !.buckets = [i \in {ip} |-> None]],
     allowed |-> TRUE, retry_after |-> FZero]

NewClient ==
    [calls |-> 0, phase |-> "burst", allowed |-> TRUE, retry_after |-> FZero, sleeps |-> 0,
     solo |-> None, admitted |-> <<>>]

\* TokenBucket._refill, lines 43-46
Refill(bucket, capacity, refill_rate, t) ==
    [tokens |-> FMin(FFromInt(capacity),
                     FAdd(bucket.tokens, FMul(FSub(t, bucket.last_refill), refill_rate))),
     last_refill |-> t]

\* A consume that admits without taking the token
ConsumeWithoutCharge(bucket, capacity, refill_rate, t) ==
    LET b == Refill(bucket, capacity, refill_rate, t)
    IN  [bucket |-> b, ok |-> ~FLess(b.tokens, FFromInt(1))]

\* TokenBucket.consume(1), lines 34-39: the bucket after the call and its result
Consume(bucket, capacity, refill_rate, t) ==
    LET b == Refill(bucket, capacity, refill_rate, t)
    IN  IF ~FLess(b.tokens, FFromInt(1))
        THEN [bucket |-> [b EXCEPT !.tokens = FSub(@, FFromInt(1))], ok |-> TRUE]
        ELSE [bucket |-> b, ok |-> FALSE]

\* TokenBucket.time_until_available(1), lines 58-64
TimeUntilAvailable(bucket, capacity, refill_rate, t) ==
    LET b == Refill(bucket, capacity, refill_rate, t)
    IN  IF ~FLess(b.tokens, FFromInt(1)) THEN FZero
        ELSE FDiv(FSub(FFromInt(1), b.tokens), refill_rate)

\* A cleanup that evicts every bucket, whatever its tokens
CleanupEveryBucket(buckets, capacity) == [ip \in DOMAIN buckets |-> None]

\* InMemoryRateLimiter._cleanup_stale_buckets, lines 128-138
CleanupStaleBuckets(buckets, capacity) ==
    [ip \in DOMAIN buckets |->
        IF buckets[ip] # None /\ ~FLess(buckets[ip][1].tokens, FFromInt(capacity))
        THEN None ELSE buckets[ip]]

\* InMemoryRateLimiter.check_rate_limit, lines 106-126, on the limiter lim at
\* time t: the limiter after the call and the answer.  The whole call holds
\* self.lock, so calls never interleave.
check_rate_limit(lim, ip, t) ==
    LET cleanup == FLess(FFromInt(cleanup_interval), FSub(t, lim.last_cleanup))
        kept == IF cleanup THEN CleanupStaleBuckets(lim.buckets, lim.capacity)
                ELSE lim.buckets
        bucket == IF kept[ip] = None
                  THEN [tokens |-> FFromInt(lim.capacity), last_refill |-> t]
                  ELSE kept[ip][1]
    IN  CHOOSE r \in
            {[limiter |-> [lim EXCEPT
                              !.buckets = [kept EXCEPT ![ip] =
                                              Some([c.bucket EXCEPT !.last_refill = t])],
                              !.last_cleanup = IF cleanup THEN t ELSE @],
              allowed |-> c.ok,
              retry_after |-> IF c.ok THEN FZero
                              ELSE TimeUntilAvailable(c.bucket, lim.capacity, lim.refill_rate, t)] :
                c \in {Consume(bucket, lim.capacity, lim.refill_rate, t)}} : TRUE

\* One call of check_rate_limit by the client ip, and the same call in the
\* client's solo run
CheckRateLimit(ip) ==
    /\ clients[ip].calls < limiter.capacity + MaxExtraCalls
    /\ \E r \in {check_rate_limit(limiter, ip, time_time)} :
       \E solo \in {check_rate_limit(clients[ip].solo[1].limiter, ip, time_time)} :
           /\ limiter' = r.limiter
           /\ clients' = [clients EXCEPT ![ip] =
                  [calls |-> @.calls + 1,
                   phase |-> IF @.phase = "waited" THEN "later" ELSE @.phase,
                   allowed |-> r.allowed, retry_after |-> r.retry_after, sleeps |-> @.sleeps,
                   solo |-> Some(solo),
                   admitted |-> IF r.allowed THEN Append(@.admitted, time_time)
                                ELSE @.admitted]]
    /\ UNCHANGED <<metrics, cancel, time_time, stream, connections, retention, store, durable, broker, environment, api>>

\* The clock advances by the retry_after the client was told last.  The client
\* is in phase "waited" if it had made capacity + 1 calls in immediate
\* succession before.
WaitRetryAfter(ip) ==
    /\ ~clients[ip].allowed
    /\ clients[ip].phase # "waited"
    /\ (clients[ip].phase = "later" => clients[ip].sleeps < MaxSleeps)
    /\ time_time' = FAdd(time_time, clients[ip].retry_after)
    /\ clients' = [i \in DOMAIN clients |->
           IF clients[i].calls = 0 THEN clients[i]
           ELSE [clients[i] EXCEPT
                    !.phase = IF i = ip /\ @ = "burst" /\ clients[i].calls = limiter.capacity + 1
                              THEN "waited" ELSE "later",
                    !.sleeps = IF i = ip /\ clients[i].phase = "later" THEN @ + 1 ELSE @]]
    /\ UNCHANGED <<metrics, cancel, limiter, stream, connections, retention, store, durable, broker, environment, api>>

\* The clock advances by d seconds while the client ip does nothing.
Sleep(ip, d) ==
    /\ clients[ip].sleeps < MaxSleeps
    /\ time_time' = FAdd(time_time, FFromInt(d))
    /\ clients' = [i \in DOMAIN clients |->
           [clients[i] EXCEPT !.phase = IF clients[i].calls = 0 THEN @ ELSE "later",
                              !.sleeps = IF i = ip THEN @ + 1 ELSE @]]
    /\ UNCHANGED <<metrics, cancel, limiter, stream, connections, retention, store, durable, broker, environment, api>>

(***************************************************************************)
(* Initial states.                                                         *)
(***************************************************************************)
\* The (n, chunks) pairs the durable store may hold a cached result for.
CachedPairs == {<<1, 1>>, <<1, max_chunks>>}

\* A limiter of the given capacity, made at time t, and no client yet
InitLimiter(capacity, t) ==
    /\ time_time = FFromInt(t)
    /\ limiter = NewLimiter(capacity, FFromInt(t))
    /\ clients = [ip \in Ips |-> [NewClient EXCEPT !.solo = Some(NewSolo(ip, capacity, FFromInt(t)))]]

InitStores ==
    /\ now = 0
    /\ progress = [j \in JobIds |-> NoRecord]
    /\ result = [j \in JobIds |-> None]
    /\ idempotency = [k \in Keys |-> None]
    /\ db_jobs = [j \in JobIds |-> ""]
    /\ db_job_chunks = [j \in JobIds |-> {}]
    /\ issued = {}
    /\ orch = [j \in JobIds |-> [state |-> "none", n |-> 0, chunks |-> 0]]
    /\ chunk = [j \in JobIds |-> <<>>]
    /\ fin = [j \in JobIds |-> "none"]
    /\ finalize_runs = [j \in JobIds |-> 0]
    /\ req = [r \in Slots |-> IdleRequest]
    /\ resp = NoResponse
    /\ returned = [k \in Keys |-> {}]
    /\ observed = [j \in JobIds |-> None]
    /\ InitLimiter(requests_per_minute, 0)
    /\ stream = NoStream
    /\ connections = NoConnections
    /\ retention = NoRetention
    /\ cancel = NoCancel
    /\ active_jobs_gauge = 0

\* The deployment of the tests: Redis only, no durable store.
Init ==
    /\ supabase_url = FALSE
    /\ job_cache = {}
    /\ InitStores

\* Every deployment: with or without the durable store and its cache.
InitApi ==
    /\ supabase_url \in BOOLEAN
    /\ job_cache \in (IF supabase_url THEN {{}, CachedPairs} ELSE {{}})
    /\ InitStores

(***************************************************************************)
(* Spec: one job through the API and the workers, with every failure of a  *)
(* chunk and of the aggregation.  Jobs share no key of the store, so one   *)
(* job is followed.                                                        *)
(***************************************************************************)
Users == {0, 1}

Next ==
    \/ \E n \in 1 .. MaxN, chunks \in 1 .. MaxChunks, user \in Users :
           issued = {} /\ CreateJobCheck(1, n, chunks, 0, user)
    \/ \E sb_ok \in BOOLEAN : CreateJobFinish(1, 1, sb_ok)
    \/ OrchestrateRangeSum(1)
    \/ \E i \in 1 .. MaxChunks : ComputeChunkIncr(1, i)
    \/ \E i \in 1 .. MaxChunks, sb_ok \in BOOLEAN : ComputeChunkWrite(1, i, sb_ok)
    \/ \E i \in 1 .. MaxChunks : ComputeChunkRaise(1, i)
    \/ \E i \in 1 .. MaxChunks : ComputeChunkTimeLimit(1, i)
    \/ FinalizeJobHset(1)
    \/ \E sb_ok \in BOOLEAN : FinalizeJobSet(1, sb_ok)
    \/ FinalizeJobRaise(1)

Spec == Init /\ [][Next]_vars

(***************************************************************************)
(* SpecLive: the same job where the workers keep executing: every task     *)
(* that is dispatched is executed, to its return or to an exception, and   *)
(* the request handler runs to its response.  Which of the two a task does *)
(* is not constrained.                                                     *)
(***************************************************************************)
Orchestrate(j) == OrchestrateRangeSum(j) \/ \E wrote \in BOOLEAN : OrchestrateRaise(j, wrote)

ComputeChunk(j, i) ==
    \/ ComputeChunkIncr(j, i)
    \/ \E sb_ok \in BOOLEAN : ComputeChunkWrite(j, i, sb_ok)
    \/ ComputeChunkRaise(j, i)
    \/ ComputeChunkTimeLimit(j, i)

FinalizeJob(j) ==
    \/ FinalizeJobHset(j)
    \/ \E sb_ok \in BOOLEAN : FinalizeJobSet(j, sb_ok)
    \/ FinalizeJobRaise(j)

NextLive ==
    \/ Next
    \/ \E wrote \in BOOLEAN : OrchestrateRaise(1, wrote)

WorkersRun ==
    /\ WF_vars(\E sb_ok \in BOOLEAN : CreateJobFinish(1, 1, sb_ok))
    /\ WF_vars(Orchestrate(1))
    /\ \A i \in 1 .. MaxChunks : WF_vars(ComputeChunk(1, i))
    /\ WF_vars(FinalizeJob(1))

SpecLive == Init /\ [][NextLive]_vars /\ WorkersRun

(***************************************************************************)
(* SpecRead: the same job, with a poller reading its progress hash.        *)
(***************************************************************************)
NextRead ==
    \/ Next
    \/ ReadProgress(1)

SpecRead == Init /\ [][NextRead]_vars

(***************************************************************************)
(* SpecStartJob: start_job alone, on every accepted (n, chunks) up to the  *)
(* bounds.  The initial states are the states create_job leaves.           *)
(***************************************************************************)
InitStartJob ==
    /\ supabase_url = FALSE
    /\ job_cache = {}
    /\ now = 0
    /\ \E n \in 1 .. MaxPartN, chunks \in 1 .. MaxPartChunks :
           /\ progress = [j \in JobIds |-> IF j = 1 THEN CreateJobRecord(chunks) ELSE NoRecord]
           /\ orch = [j \in JobIds |->
                         IF j = 1 THEN [state |-> "queued", n |-> n, chunks |-> chunks]
                         ELSE [state |-> "none", n |-> 0, chunks |-> 0]]
           /\ resp = [seq |-> 1, op |-> "create_job", args |-> <<n, chunks, 0>>, code |-> 202,
                      body |-> JobCreated(1, "pending", FALSE, None)]
    /\ result = [j \in JobIds |-> None]
    /\ idempotency = [k \in Keys |-> None]
    /\ db_jobs = [j \in JobIds |-> ""]
    /\ db_job_chunks = [j \in JobIds |-> {}]
    /\ issued = {1}
    /\ chunk = [j \in JobIds |-> <<>>]
    /\ fin = [j \in JobIds |-> "none"]
    /\ finalize_runs = [j \in JobIds |-> 0]
    /\ req = [r \in Slots |-> IdleRequest]
    /\ returned = [k \in Keys |-> {}]
    /\ observed = [j \in JobIds |-> None]
    /\ InitLimiter(requests_per_minute, 0)
    /\ stream = NoStream
    /\ connections = NoConnections
    /\ retention = NoRetention
    /\ cancel = NoCancel
    /\ active_jobs_gauge = 0

NextStartJob == OrchestrateRangeSum(1)

SpecStartJob == InitStartJob /\ [][NextStartJob]_vars

(***************************************************************************)
(* SpecApi: the handlers of the API on the values at and around their      *)
(* bounds, in every deployment.  No worker runs.                           *)
(***************************************************************************)
\* The next uuid4
NextJobId == Cardinality(issued) + 1

ApiN == {0, 1, max_job_n, max_job_n + 1}
ApiChunks == {0, max_chunks, max_chunks + 1, schema_chunks_le + 1}
DemoN == {0, demo_max_n, demo_max_n + 1, 20000}
DemoChunks == {0, demo_max_chunks, demo_max_chunks + 1}

NextApi ==
    \/ \E n \in ApiN, chunks \in ApiChunks, key \in {0} \cup Keys, user \in Users :
           CreateJobCheck(1, n, chunks, key, user)
    \/ \E sb_ok \in BOOLEAN :
           NextJobId <= MaxApiJobs /\ CreateJobFinish(1, NextJobId, sb_ok)
    \/ \E n \in DemoN, chunks \in DemoChunks :
           NextJobId <= MaxApiJobs /\ CreateDemoJob(n, chunks, NextJobId)
    \/ \E j \in JobIds : GetJobStatus(j)
    \/ \E j \in JobIds : GetDemoJobStatus(j)

SpecApi == InitApi /\ [][NextApi]_vars

(***************************************************************************)
(* SpecIdem: create_job requests that carry an Idempotency-Key, one after  *)
(* the other or overlapping, while the clock advances.  No worker runs.    *)
(***************************************************************************)
NextIdem ==
    \/ \E r \in Slots, key \in Keys, user \in Users : CreateJobCheck(r, 1, 1, key, user)
    \/ \E r \in Slots, sb_ok \in BOOLEAN :
           NextJobId <= MaxJobs /\ CreateJobFinish(r, NextJobId, sb_ok)
    \/ Tick

SpecIdem == InitApi /\ [][NextIdem]_vars

(***************************************************************************)
(* SpecStatus: one job through the API and the workers, with status        *)
(* queries answered at every point of its life.                            *)
(***************************************************************************)
NextStatus ==
    \/ \E n \in 1 .. MaxPollN, chunks \in 1 .. MaxPollChunks, user \in Users :
           issued = {} /\ CreateJobCheck(1, n, chunks, 0, user)
    \/ \E sb_ok \in BOOLEAN : CreateJobFinish(1, 1, sb_ok)
    \/ OrchestrateRangeSum(1)
    \/ \E i \in 1 .. MaxPollChunks : ComputeChunkIncr(1, i)
    \/ \E i \in 1 .. MaxPollChunks, sb_ok \in BOOLEAN : ComputeChunkWrite(1, i, sb_ok)
    \/ \E i \in 1 .. MaxPollChunks : ComputeChunkRaise(1, i)
    \/ \E i \in 1 .. MaxPollChunks : ComputeChunkTimeLimit(1, i)
    \/ FinalizeJobHset(1)
    \/ \E sb_ok \in BOOLEAN : FinalizeJobSet(1, sb_ok)
    \/ FinalizeJobRaise(1)
    \/ GetJobStatus(1)
    \/ GetDemoJobStatus(1)

SpecStatus == Init /\ [][NextStatus]_vars

(***************************************************************************)
(* SpecStream: one job of one chunk through the API and the workers, and   *)
(* one event stream opened on it at any moment.                            *)
(***************************************************************************)
StreamChunks == {1}

NextStream ==
    \/ \E n \in 1 .. MaxStreamN, chunks \in StreamChunks :
           issued = {} /\ CreateJobCheck(1, n, chunks, 0, 0)
    \/ CreateJobFinish(1, 1, TRUE)
    \/ OrchestrateRangeSum(1)
    \/ \E i \in StreamChunks : ComputeChunkIncr(1, i)
    \/ \E i \in StreamChunks : ComputeChunkWrite(1, i, TRUE)
    \/ \E i \in StreamChunks : ComputeChunkRaise(1, i)
    \/ \E i \in StreamChunks : ComputeChunkTimeLimit(1, i)
    \/ FinalizeJobHset(1)
    \/ FinalizeJobSet(1, TRUE)
    \/ FinalizeJobRaise(1)
    \/ StreamOpen(1)
    \/ StreamHGetAll
    \/ StreamGet

SpecStream == Init /\ [][NextStream]_vars

(***************************************************************************)
(* SpecWs: a job of an authenticated user with the durable store, through  *)
(* the API and the workers, and the WebSockets subscribed to it.           *)
(***************************************************************************)
InitWs ==
    /\ supabase_url = TRUE
    /\ job_cache = {}
    /\ InitStores

NextWs ==
    \/ \E n \in 1 .. MaxPollN, chunks \in 1 .. MaxPollChunks :
           issued = {} /\ CreateJobCheck(1, n, chunks, 0, 1)
    \/ CreateJobFinish(1, 1, TRUE)
    \/ OrchestrateRangeSum(1)
    \/ \E i \in 1 .. MaxPollChunks : ComputeChunk(1, i)
    \/ FinalizeJob(1)
    \/ \E w \in WebSockets : WebsocketEndpoint(w, 1)
    \/ \E w \in WebSockets, type \in {"pong", "heartbeat"} : WebsocketReceive(w, 1, type)
    \/ \E w \in WebSockets : WebsocketDisconnect(w, 1)

SpecWs == InitWs /\ [][NextWs]_vars

(***************************************************************************)
(* SpecSend: the jobs of an authenticated user, the WebSockets that         *)
(* subscribe to them and leave, and calls of send_job_update with the       *)
(* job's progress hash, whose sends succeed or raise.                      *)
(***************************************************************************)
Subscribers == 1 .. MaxSubscribers

InitSend ==
    /\ supabase_url = TRUE
    /\ job_cache = {}
    /\ now = 0
    /\ progress = [j \in JobIds |-> NoRecord]
    /\ result = [j \in JobIds |-> None]
    /\ idempotency = [k \in Keys |-> None]
    /\ db_jobs = [j \in JobIds |-> ""]
    /\ db_job_chunks = [j \in JobIds |-> {}]
    /\ issued = {}
    /\ orch = [j \in JobIds |-> [state |-> "none", n |-> 0, chunks |-> 0]]
    /\ chunk = [j \in JobIds |-> <<>>]
    /\ fin = [j \in JobIds |-> "none"]
    /\ finalize_runs = [j \in JobIds |-> 0]
    /\ req = [r \in Slots |-> IdleRequest]
    /\ resp = NoResponse
    /\ returned = [k \in Keys |-> {}]
    /\ observed = [j \in JobIds |-> None]
    /\ InitLimiter(requests_per_minute, 0)
    /\ stream = NoStream
    /\ connections = Connections(Subscribers)
    /\ retention = NoRetention
    /\ cancel = NoCancel
    /\ active_jobs_gauge = 0

NextSend ==
    \/ CreateJobCheck(1, 1, 1, 0, 1)
    \/ \E job_id \in JobIds : CreateJobFinish(1, job_id, TRUE)
    \/ \E w \in Subscribers, job_id \in JobIds : WebsocketEndpoint(w, job_id)
    \/ \E w \in Subscribers, job_id \in JobIds : WebsocketDisconnect(w, job_id)
    \/ \E job_id \in JobIds : send_job_update(job_id, progress[job_id])
    \/ \E ok \in BOOLEAN : SendText(ok)

SpecSend == InitSend /\ [][NextSend]_vars

(***************************************************************************)
(* SpecRetention: a job of an authenticated user through the API and the   *)
(* workers, the user's cancel requests, the cleanup and the passing of     *)
(* time.                                                                   *)
(***************************************************************************)
NextRetention ==
    \/ \E n \in 1 .. MaxPollN, chunks \in 1 .. MaxPollChunks :
           issued = {} /\ CreateJobCheck(1, n, chunks, 0, 1)
    \/ CreateJobFinish(1, 1, TRUE)
    \/ OrchestrateRangeSum(1)
    \/ \E i \in 1 .. MaxPollChunks : ComputeChunk(1, i)
    \/ FinalizeJob(1)
    \/ CancelJob(1)
    \/ CleanupHGetAll(1)
    \/ CleanupTtl
    \/ CleanupExpire
    \/ Tick

SpecRetention == InitWs /\ [][NextRetention]_vars

(***************************************************************************)
(* SpecExpiry: a job through the API and the workers, the cleanup, the     *)
(* passing of time, and the first polls of a status stream on the job.     *)
(***************************************************************************)
NextExpiry ==
    \/ issued = {} /\ CreateJobCheck(1, 1, 1, 0, 0)
    \/ CreateJobFinish(1, 1, TRUE)
    \/ OrchestrateRangeSum(1)
    \/ ComputeChunk(1, 1)
    \/ FinalizeJob(1)
    \/ CleanupHGetAll(1)
    \/ CleanupTtl
    \/ CleanupExpire
    \/ Tick
    \/ StreamOpen(1)
    \/ stream.iteration < MaxStreamPolls /\ StreamHGetAll
    \/ StreamGet

SpecExpiry == Init /\ [][NextExpiry]_vars

(***************************************************************************)
(* SpecCancel: a job of an authenticated user with the durable store,      *)
(* through the API and the workers, and the user's cancel requests.        *)
(***************************************************************************)
NextCancel ==
    \/ \E n \in 1 .. MaxPollN, chunks \in 1 .. MaxPollChunks :
           issued = {} /\ CreateJobCheck(1, n, chunks, 0, 1)
    \/ \E sb_ok \in BOOLEAN : CreateJobFinish(1, 1, sb_ok)
    \/ OrchestrateRangeSum(1)
    \/ \E i \in 1 .. MaxPollChunks : ComputeChunk(1, i)
    \/ FinalizeJob(1)
    \/ CancelJob(1)
    \/ CancelJobSelect(1)
    \/ CancelJobUpdate

SpecCancel == InitWs /\ [][NextCancel]_vars

(***************************************************************************)
(* SpecDurable: a job of an authenticated user where every Redis call      *)
(* succeeds and any call of the durable store may fail.                    *)
(***************************************************************************)
InitDurable ==
    /\ supabase_url = TRUE
    /\ job_cache \in {{}, CachedPairs}
    /\ InitStores

NextDurable ==
    \/ \E n \in 1 .. MaxN, chunks \in 1 .. MaxChunks :
           issued = {} /\ CreateJobCheck(1, n, chunks, 0, 1)
    \/ \E sb_ok \in BOOLEAN : CreateJobFinish(1, 1, sb_ok)
    \/ OrchestrateRangeSum(1)
    \/ \E i \in 1 .. MaxChunks : ComputeChunkIncr(1, i)
    \/ \E i \in 1 .. MaxChunks, sb_ok \in BOOLEAN : ComputeChunkWrite(1, i, sb_ok)
    \/ FinalizeJobHset(1)
    \/ \E sb_ok \in BOOLEAN : FinalizeJobSet(1, sb_ok)

SpecDurable == InitDurable /\ [][NextDurable]_vars

(***************************************************************************)
(* SpecDispatch: one job where create_job and start_job go call by call,   *)
(* and the workers run between any two calls.                              *)
(***************************************************************************)
NextDispatch ==
    \/ \E n \in 1 .. MaxN, chunks \in 1 .. MaxChunks :
           issued = {} /\ CreateJobCheck(1, n, chunks, 0, 0)
    \/ CreateJobHSet(1, 1)
    \/ CreateJobDelay(1, 1)
    \/ StartJobHSet(1)
    \/ StartJobChord(1)
    \/ \E i \in 1 .. MaxChunks : ComputeChunk(1, i)
    \/ FinalizeJob(1)

SpecDispatch == Init /\ [][NextDispatch]_vars

(***************************************************************************)
(* SpecLimiter: the rate limiter alone, for every capacity up to the bound, *)
(* started at time 0 and at a time.time() of today.                        *)
(***************************************************************************)
Epochs == {0, 1700000000}

\* No job, no request, no stream and no WebSocket
InitNoJobs ==
    /\ stream = NoStream
    /\ connections = NoConnections
    /\ retention = NoRetention
    /\ cancel = NoCancel
    /\ active_jobs_gauge = 0
    /\ supabase_url = FALSE
    /\ job_cache = {}
    /\ now = 0
    /\ progress = [j \in JobIds |-> NoRecord]
    /\ result = [j \in JobIds |-> None]
    /\ idempotency = [k \in Keys |-> None]
    /\ db_jobs = [j \in JobIds |-> ""]
    /\ db_job_chunks = [j \in JobIds |-> {}]
    /\ issued = {}
    /\ orch = [j \in JobIds |-> [state |-> "none", n |-> 0, chunks |-> 0]]
    /\ chunk = [j \in JobIds |-> <<>>]
    /\ fin = [j \in JobIds |-> "none"]
    /\ finalize_runs = [j \in JobIds |-> 0]
    /\ req = [r \in Slots |-> IdleRequest]
    /\ resp = NoResponse
    /\ returned = [k \in Keys |-> {}]
    /\ observed = [j \in JobIds |-> None]

InitRateLimit ==
    /\ \E capacity \in 1 .. MaxCapacity, t \in Epochs : InitLimiter(capacity, t)
    /\ InitNoJobs

NextLimiter ==
    \/ \E ip \in Ips : CheckRateLimit(ip)
    \/ \E ip \in Ips : WaitRetryAfter(ip)
    \/ \E ip \in Ips, d \in {1, cleanup_interval + 1} : Sleep(ip, d)

SpecLimiter == InitRateLimit /\ [][NextLimiter]_vars

(***************************************************************************)
(* SpecBucket: the limiter with one client, which calls in bursts, waits   *)
(* for the retry_after it was told, or pauses.                             *)
(***************************************************************************)
InitBucket ==
    /\ \E capacity \in 1 .. MaxCapacity, t \in {1700000000} :
           /\ time_time = FFromInt(t)
           /\ limiter = [NewLimiter(capacity, FFromInt(t)) EXCEPT
                            !.buckets = [ip \in {1} |-> None]]
           /\ clients = [ip \in {1} |->
                  [NewClient EXCEPT !.solo = Some(NewSolo(ip, capacity, FFromInt(t)))]]
    /\ InitNoJobs

NextBucket ==
    \/ CheckRateLimit(1)
    \/ WaitRetryAfter(1)
    \/ \E d \in {1, cleanup_interval + 1} : Sleep(1, d)

SpecBucket == InitBucket /\ [][NextBucket]_vars

(***************************************************************************)
(* SpecCleanup: the limiter with several clients, whose calls are          *)
(* separated by pauses longer than cleanup_interval.                       *)
(***************************************************************************)
CleanupIps == 1 .. MaxCleanupIps

\* The sum of the second components of a set of pairs
RECURSIVE SetSum(_)
SetSum(pairs) ==
    IF pairs = {} THEN 0
    ELSE LET p == CHOOSE q \in pairs : TRUE IN p[2] + SetSum(pairs \ {p})

InitCleanup ==
    /\ \E capacity \in 1 .. MaxCleanupCapacity, t \in {0} :
           /\ time_time = FFromInt(t)
           /\ limiter = [NewLimiter(capacity, FFromInt(t)) EXCEPT
                            !.buckets = [ip \in CleanupIps |-> None]]
           /\ clients = [ip \in CleanupIps |->
                  [NewClient EXCEPT !.solo = Some(NewSolo(ip, capacity, FFromInt(t)))]]
    /\ InitNoJobs

\* The calls the clients have made so far, and the pauses so far
TotalCalls == SetSum({<<ip, clients[ip].calls>> : ip \in DOMAIN clients})
TotalSleeps == SetSum({<<ip, clients[ip].sleeps>> : ip \in DOMAIN clients})

\* A pause of d seconds, counted for the first client that has pauses left
Pause(d) ==
    /\ TotalSleeps < MaxCleanupSleeps
    /\ \E ip \in CleanupIps :
           /\ \A i \in 1 .. ip - 1 : clients[i].sleeps = MaxSleeps
           /\ Sleep(ip, d)

NextCleanup ==
    \/ \E ip \in CleanupIps : TotalCalls < MaxCleanupCalls /\ CheckRateLimit(ip)
    \/ \E d \in {1, cleanup_interval} : Pause(d)

SpecCleanup == InitCleanup /\ [][NextCleanup]_vars

C3_FailurePropagates ==
    \A j \in JobIds :
        (\E i \in 1 .. Len(chunk[j]) : chunk[j][i].pc = "failed") =>
            /\ result[j] = None
            /\ (\A i \in 1 .. Len(chunk[j]) : chunk[j][i].pc \in {"succeeded", "failed"})
                   => progress[j].status = "failed"

\* C4: once a job's status is completed, failed or cancelled, no step
\* changes it.
C4_TerminalStatusKept ==
    [][\A j \in JobIds :
           progress[j].status \in Terminal => progress'[j].status = progress[j].status]_vars

\* C5: a create_job request with an Idempotency-Key that is sent after an
\* earlier request with the same key was accepted, less than 24 hours
\* before, returns that earlier response, and writes no job record and
\* dispatches no task.  The request returns either from its idempotency
\* check (req is unchanged) or from the end of the handler (its slot is
\* freed).
C5_ReplayedRequest ==
    [][/\ \A r \in Slots :
              (req[r].pc = "checked" /\ req'[r].pc = "idle" /\ req[r].prior # {}) =>
                  /\ req[r].prior = {resp'.body}
                  /\ UNCHANGED <<progress, db_jobs, orch, issued>>
       /\ ( /\ resp'.seq # resp.seq
            /\ resp'.op = "create_job"
            /\ resp'.code = 202
            /\ req' = req
            /\ PriorResponses(resp'.args[3]) # {} ) =>
                  /\ PriorResponses(resp'.args[3]) = {resp'.body}
                  /\ UNCHANGED <<progress, db_jobs, orch, issued>>]_vars

\* C6: of two successive reads of a job's progress hash that both show
\* pending or running, the later one sees a completed_chunks that is at
\* least the earlier one's.
C6_CompletedChunksMonotone ==
    [][\A j \in JobIds :
           (observed[j] # None /\ observed'[j] # None) => observed'[j][1] >= observed[j][1]]_vars

\* A read saw completed_chunks = 1, and retried chunks have since taken the
\* counter beyond the number of chunks while the job is running.
C6_Witness ==
    /\ observed[1] = Some(1)
    /\ progress[1].status = "running"
    /\ progress[1].completed_chunks > progress[1].total_chunks

\* C7: the ranges of the compute_chunk tasks start_job dispatches for
\* (n, chunks) are non-empty, pairwise disjoint, and cover exactly 1..n.
C7_RangesPartition ==
    \A j \in JobIds :
        orch[j].state = "done" =>
            LET s == chunk[j]
            IN  /\ \A i \in 1 .. Len(s) : s[i].start <= s[i].end
                /\ \A i, k \in 1 .. Len(s) :
                       i # k => (s[i].start .. s[i].end) \cap (s[k].start .. s[k].end) = {}
                /\ UNION {s[i].start .. s[i].end : i \in 1 .. Len(s)} = 1 .. orch[j].n

\* start_job has dispatched n = 10 in 3 chunks, the last one shorter.
C7_Witness ==
    /\ orch[1].state = "done"
    /\ orch[1].n = 10
    /\ orch[1].chunks = 3
    /\ Len(chunk[1]) = 3
    /\ chunk[1][3].end - chunk[1][3].start < chunk[1][1].end - chunk[1][1].start

\* C8: the number of compute_chunk tasks start_job dispatches for (n, chunks)
\* is min(chunks, n), the total_chunks it records.
C8_DispatchedCount ==
    \A j \in JobIds :
        orch[j].state = "done" =>
            /\ Len(chunk[j]) = Min(orch[j].chunks, orch[j].n)
            /\ progress[j].total_chunks = Min(orch[j].chunks, orch[j].n)

\* C9: a create_job or create_demo_job request whose n or chunks is outside
\* the bounds of its endpoint gets a client error, and its step writes no
\* progress hash, no result, no idempotency record, no row, and dispatches
\* no task.
C9_OutOfBoundsRejected ==
    [][( /\ resp'.seq # resp.seq
         /\ resp'.op \in {"create_job", "create_demo_job"}
         /\ IF resp'.op = "create_job"
            THEN ~(resp'.args[1] \in 1 .. max_job_n /\ resp'.args[2] \in 1 .. max_chunks)
            ELSE ~(resp'.args[1] \in 1 .. demo_max_n /\ resp'.args[2] \in 1 .. demo_max_chunks) ) =>
             /\ resp'.code \in {400, 422}
             /\ UNCHANGED <<progress, result, idempotency, db_jobs, issued, orch, chunk, fin>>]_vars

\* create_job has rejected n = max_job_n + 1 while a job and its records exist.
C9_Witness ==
    /\ resp.op = "create_job"
    /\ resp.code = 400
    /\ resp.args[1] = max_job_n + 1
    /\ Exists(progress[1])
    /\ orch[1].state = "queued"

\* C10: a status query for a job id that has no progress hash returns
\* not-found, and its step leaves the progress hashes, the results and the
\* idempotency records as they were.
C10_UnknownJobNotFound ==
    [][( /\ resp'.seq # resp.seq
         /\ resp'.op \in {"get_job_status", "get_demo_job_status"}
         /\ ~Exists(progress[resp'.args[1]]) ) =>
             /\ resp'.code = 404
             /\ UNCHANGED <<progress, result, idempotency>>]_vars

\* A status query was answered not-found while another job's progress hash
\* and an idempotency record exist.
C10_Witness ==
    /\ resp.op \in {"get_job_status", "get_demo_job_status"}
    /\ resp.code = 404
    /\ \E j \in JobIds : Exists(progress[j])
    /\ \E k \in Keys : idempotency[k] # None

\* C11: every job id that create_job or create_demo_job has returned in an
\* accepted response has a progress hash, and a status query for it is not
\* answered not-found.
C11_ReturnedJobHasRecord ==
    [][\A j \in issued :
           /\ Exists(progress[j])
           /\ ( /\ resp'.seq # resp.seq
                /\ resp'.op \in {"get_job_status", "get_demo_job_status"}
                /\ resp'.args = <<j>> ) => resp'.code = 200]_vars

\* C12: every successful status response has progress within [0, 1],
\* completed_chunks >= 0 and total_chunks >= 1.
C12_StatusFieldsInRange ==
    (resp.op \in {"get_job_status", "get_demo_job_status"} /\ resp.code = 200) =>
        /\ resp.body.progress \in 0 .. 10000
        /\ resp.body.completed_chunks >= 0
        /\ resp.body.total_chunks >= 1

\* A status response of a running job whose retried chunks have taken
\* completed_chunks beyond total_chunks.
C12_Witness ==
    /\ resp.op = "get_job_status"
    /\ resp.code = 200
    /\ resp.body.status = "running"
    /\ resp.body.completed_chunks > resp.body.total_chunks
    /\ resp.body.progress = 10000

\* C13: a new client that calls check_rate_limit in immediate succession has
\* its first capacity calls admitted and the next one rejected with
\* retry_after > 0; once the clock has advanced by that retry_after, its next
\* call is admitted.
C13_BurstThenRetry ==
    [][\A ip \in Ips :
           clients'[ip].calls = clients[ip].calls + 1 =>
               /\ (clients[ip].phase = "burst" /\ clients[ip].calls < limiter.capacity)
                      => clients'[ip].allowed
               /\ (clients[ip].phase = "burst" /\ clients[ip].calls = limiter.capacity)
                      => (~clients'[ip].allowed /\ FLess(FZero, clients'[ip].retry_after))
               /\ clients[ip].phase = "waited" => clients'[ip].allowed]_vars

\* C14: with the workers executing every dispatched task, a job that create_job
\* accepted (its orchestration task is enqueued) eventually has status
\* completed or failed in its progress hash.
C14_AcceptedJobTerminates ==
    (orch[1].state = "queued") ~> (progress[1].status \in {"completed", "failed"})

\* C15: a stream makes at most max_iterations polls; it has yielded done
\* exactly if its last poll saw status completed, failed or cancelled, and it
\* stopped at that poll; it has yielded timeout exactly if it stopped after
\* max_iterations polls none of which saw such a status; never both.
C15_StreamTerminates ==
    /\ stream.iteration \in 0 .. max_iterations
    /\ (stream.pc \in {"loop", "read"} /\ stream.status_update # None)
           => stream.status_update[1].status \notin {"completed", "failed", "cancelled"}
    /\ "done" \in stream.yielded <=>
           /\ stream.pc = "closed" /\ stream.status_update # None
           /\ stream.status_update[1].status \in {"completed", "failed", "cancelled"}
    /\ "timeout" \in stream.yielded <=>
           /\ stream.pc = "closed" /\ stream.iteration = max_iterations
           /\ stream.status_update[1].status \notin {"completed", "failed", "cancelled"}
    /\ ~("done" \in stream.yielded /\ "timeout" \in stream.yielded)
    /\ stream.pc \in {"loop", "read"} => stream.iteration < max_iterations

\* The last poll allowed sees the job completed: done, and no timeout
C15_Witness ==
    /\ stream.pc = "closed" /\ stream.iteration = max_iterations - 1
    /\ stream.emitted = <<"status", "done">>
    /\ stream.status_update[1].status = "completed"

\* C16: a poll yields a status event exactly if the state it polled differs
\* from the state carried by the last status event yielded before; the first
\* poll yields one; a status event never carries the state of the one before.
C16_StatusEventOnChange ==
    [][(stream.pc = "read" /\ stream'.pc # "read") =>
           LET polled == stream'.status_update
               status_event == \E k \in 1 .. Len(stream'.emitted) : stream'.emitted[k] = "status"
           IN  /\ status_event <=> polled # stream.sent
               /\ stream.sent = None => status_event
               /\ status_event => (stream'.sent = polled /\ stream'.sent # stream.sent)
               /\ ~status_event => stream'.sent = stream.sent]_vars

\* A poll that saw what the last status event carried, and yielded nothing
C16_Witness ==
    /\ stream.pc = "loop" /\ stream.iteration = 2 /\ stream.emitted = <<>>
    /\ stream.sent = stream.status_update /\ stream.sent[1].status = "running"

\* C17: when a step of compute_chunk or finalize_job (_mark_failed included)
\* changes the progress hash or the result of job 1, every WebSocket subscribed
\* to job 1 at that moment has received a job update carrying the new state.
C17_ChangePushedToSubscribers ==
    [][(/\ orch' = orch /\ issued' = issued
        /\ (progress'[1] # progress[1] \/ result'[1] # result[1])) =>
           \A w \in connections.active_connections[1] :
               JobUpdate(progress'[1]) \in connections'.received[w]]_vars

\* C18: once the jobs row of job 1 is cancelled, no later step changes the
\* status recorded in it.
C18_CancelledStays ==
    [][db_jobs[1] = "cancelled" => db_jobs'[1] = "cancelled"]_vars

\* C19: when only calls of the durable store fail, job 1 goes as it does
\* without the store: a submission that left no jobs row answered 202 pending
\* with the progress record written and the orchestration enqueued; no chunk
\* is retried or fails; the status is never failed; and the finished job is
\* completed with all chunks counted and the sum of 1..n as its result.
C19_StoreFailureIsHarmless ==
    /\ (1 \in issued /\ db_jobs[1] = "") =>
           /\ resp.op = "create_job" /\ resp.code = 202
           /\ resp.body = JobCreated(1, "pending", FALSE, None)
           /\ Exists(progress[1]) /\ orch[1].state \in {"queued", "done"}
    /\ \A i \in 1 .. Len(chunk[1]) : chunk[1][i].retries = 0 /\ chunk[1][i].pc # "failed"
    /\ Exists(progress[1]) => progress[1].status \in {"pending", "running", "completed"}
    /\ fin[1] # "failed"
    /\ fin[1] = "done" =>
           /\ progress[1].status = "completed"
           /\ progress[1].completed_chunks = progress[1].total_chunks
           /\ result[1] = Some(RangeSum(1, orch[1].n))

\* The jobs row was inserted, and the updates of every chunk and of the
\* aggregation failed
C19_Witness ==
    /\ fin[1] = "done" /\ db_jobs[1] = "pending" /\ Len(chunk[1]) = 2
    /\ progress[1].status = "completed" /\ result[1] = Some(RangeSum(1, orch[1].n))

C21_IncrementsNotLost ==
    [][/\ \A i \in 1 .. Len(chunk[1]) :
              (chunk[1][i].pc = "queued" /\ chunk'[1][i].pc = "incremented") =>
                  /\ progress'[1].completed_chunks = progress[1].completed_chunks + 1
                  /\ chunk'[1][i].completed = progress'[1].completed_chunks
                  /\ \A k \in 1 .. Len(chunk[1]) :
                         (k # i /\ chunk'[1][k].pc = "incremented")
                             => chunk'[1][k].completed # chunk'[1][i].completed
       /\ ( /\ chunk[1] # <<>> /\ chunk'[1] # chunk[1] /\ fin' = fin
            /\ \A i \in 1 .. Len(chunk[1]) :
                   ~(chunk[1][i].pc = "queued" /\ chunk'[1][i].pc = "incremented") )
              => progress'[1].completed_chunks = progress[1].completed_chunks]_vars

\* Two executions are past their increments at once and hold 1 and 2
C21_Witness ==
    /\ Len(chunk[1]) = 2
    /\ chunk[1][1].pc = "incremented" /\ chunk[1][2].pc = "incremented"
    /\ {chunk[1][1].completed, chunk[1][2].completed} = {1, 2}
    /\ progress[1].completed_chunks = 2

\* C22: whenever no compute_chunk of job 1 is between its increment and its
\* progress write, the stored progress is completed_chunks / total_chunks
\* clamped to [0, 1] (to the four decimals the store keeps).
C22_ProgressMatchesCounter ==
    (Exists(progress[1]) /\ \A i \in 1 .. Len(chunk[1]) : chunk[1][i].pc # "incremented") =>
        progress[1].progress = Fmt4(progress[1].completed_chunks, Max(progress[1].total_chunks, 1))

C24_TimeLimitNotRetried ==
    [][\A i \in 1 .. Len(chunk[1]) :
           ( /\ chunk'[1] # <<>>
             /\ chunk[1][i].pc \in {"queued", "incremented"}
             /\ chunk'[1][i] # chunk[1][i]
             /\ progress'[1].status = "failed"
             /\ progress'[1].detail = Detail("time_limit", chunk[1][i].index + 1, 0) )
               => chunk'[1][i].pc = "failed"]_vars

\* C25: once finalize_job of job 1 has raised, the job's status is failed with
\* the aggregation detail, no result is stored, and finalize_job has run once.
C25_AggregationFailure ==
    fin[1] = "failed" =>
        /\ progress[1].status = "failed"
        /\ progress[1].detail = Detail("aggregation_failed", 0, 0)
        /\ result[1] = None
        /\ finalize_runs[1] = 1

\* finalize_job raised on a job of two chunks, one of which had been retried
C25_Witness ==
    /\ fin[1] = "failed" /\ Len(chunk[1]) = 2 /\ finalize_runs[1] = 1
    /\ chunk[1][1].retries = 1 /\ progress[1].status = "failed"

\* C26: every create_job request with an Idempotency-Key that has passed its
\* check creates a job of its own when it goes on (it is not answered from the
\* durable store's cache), also when another request with the same key has
\* stored its response in between, and its response replaces the one stored
\* under the key.
C26_OverlappingRequestsBothCreate ==
    [][\A r \in Slots :
           ( /\ req[r].pc = "checked" /\ req'[r].pc = "idle" /\ req[r].key # 0
             /\ ~resp'.body.cached ) =>
               /\ resp'.code = 202 /\ resp'.body.status = "pending"
               /\ resp'.body.job_id \notin issued
               /\ issued' = issued \cup {resp'.body.job_id}
               /\ orch'[resp'.body.job_id].state = "queued"
               /\ idempotency'[req[r].key] # None
               /\ idempotency'[req[r].key][1].body = resp'.body]_vars

\* Two requests with one key, neither expired, were given two jobs, and the
\* key holds the response of the second
C26_Witness ==
    /\ now = 0
    /\ {b.body.job_id : b \in returned[1]} = {1, 2}
    /\ orch[1].state = "queued" /\ orch[2].state = "queued"
    /\ idempotency[1] # None /\ idempotency[1][1].body.job_id = 2

\* C27: the state a status event of the stream carries has a result exactly
\* if its status is completed.
C27_ResultIffCompleted ==
    stream.status_update # None =>
        (stream.status_update[1].result # None <=> stream.status_update[1].status = "completed")

\* C28: completed_chunks of job 1 never exceeds its total_chunks.
C28_CompletedAtMostTotal ==
    Exists(progress[1]) => progress[1].completed_chunks <= progress[1].total_chunks

\* C29: no step lowers the progress value stored for job 1, so a later read
\* never sees less than an earlier one.
C29_ProgressMonotone ==
    [][Exists(progress[1]) => progress'[1].progress >= progress[1].progress]_vars

\* C30: when a call of send_job_update ends after a send raised, it returns
\* without an error, the connections whose send raised are no longer in the
\* job's set, every other subscriber the job had at the call received the
\* message, and the sets of the other jobs are as they were.
C30_FailedSendHandled ==
    [][( /\ connections.update.pc = "sending"
         /\ connections'.update.pc # "sending"
         /\ connections'.update.disconnected # {} ) =>
            LET u == connections'.update
            IN  /\ u.pc = "returned"
                /\ connections'.active_connections[u.job_id] \cap u.disconnected = {}
                /\ u.initial \ u.disconnected \subseteq u.delivered
                /\ \A j \in JobIds \ {u.job_id} :
                       connections'.active_connections[j] = connections.active_connections[j]]_vars

\* C31: once the handler of a WebSocket has ended, neither dictionary of the
\* ConnectionManager holds the connection, and neither the job key nor the
\* user key it was registered under is mapped to an empty set.
C31_NoEntryAfterHandlerEnded ==
    \A w \in DOMAIN connections.handler :
        LET h == connections.handler[w]
        IN  h.state = "ended" =>
                /\ \A j \in JobIds : w \notin connections.active_connections[j]
                /\ w \notin connections.user_connections[h.user_id]
                /\ h.job_id \in connections.job_keys =>
                       connections.active_connections[h.job_id] # {}
                /\ h.user_id \in connections.user_keys =>
                       connections.user_connections[h.user_id] # {}

\* C32: when a call of check_rate_limit runs the periodic cleanup, the bucket
\* of every other client whose tokens have refilled to capacity by then is
\* removed from the bucket map.
C32_IdleBucketEvicted ==
    [][limiter'.last_cleanup # limiter.last_cleanup =>
           \A ip \in DOMAIN clients :
               ( /\ clients'[ip].calls = clients[ip].calls
                 /\ limiter.buckets[ip] # None
                 /\ ~FLess(Refill(limiter.buckets[ip][1], limiter.capacity,
                                  limiter.refill_rate, time_time).tokens,
                           FFromInt(limiter.capacity)) ) =>
                   limiter'.buckets[ip] = None]_vars

\* C33: every answer of check_rate_limit to a client, the admission decision
\* and retry_after, is the answer the client gets in the run where it makes
\* the same calls at the same times and no other client calls; and an
\* admitted call takes exactly one token from the client's refilled bucket.
C33_AnswersIndependent ==
    [][\A ip \in DOMAIN clients :
           clients'[ip].calls = clients[ip].calls + 1 =>
               /\ clients'[ip].allowed = clients'[ip].solo[1].allowed
               /\ clients'[ip].retry_after = clients'[ip].solo[1].retry_after
               /\ clients'[ip].allowed =>
                      \E b \in {IF limiter.buckets[ip] = None
                                THEN [tokens |-> FFromInt(limiter.capacity),
                                      last_refill |-> time_time]
                                ELSE Refill(limiter.buckets[ip][1], limiter.capacity,
                                            limiter.refill_rate, time_time)} :
                          limiter'.buckets[ip][1].tokens = FSub(b.tokens, FFromInt(1))]_vars

\* A client is refused just after another client's call ran the cleanup
C33_Witness ==
    \E ip \in DOMAIN clients, other \in DOMAIN clients :
        /\ ip # other
        /\ clients[ip].calls >= 2
        /\ ~clients[ip].allowed
        /\ clients[other].calls >= 1
        /\ limiter.last_cleanup # clients[ip].solo[1].limiter.last_cleanup
        /\ limiter.last_cleanup # FZero

\* The time from t1 to t2 >= t1 as an exact number m * 2^e
Elapsed(t1, t2) ==
    LET e == Min(t1.e, t2.e) IN [m |-> BigSub(FAligned(t2, e), FAligned(t1, e)), e |-> e]

\* k <= capacity + x * p / q, in exact arithmetic, for x = m * 2^e
WithinRate(k, capacity, x, p, q) ==
    \/ k <= capacity
    \/ \E lhs \in {BigMul(BigFromInt(k - capacity), q)}, rhs \in {BigMul(x.m, p)} :
           IF x.e >= 0 THEN ~BigLess(BigShl(rhs, x.e), lhs)
           ELSE ~BigLess(rhs, BigShl(lhs, -x.e))

C35_ExpiryOnlyOnTerminal ==
    [][/\ \A j \in JobIds :
              retention'.expire_at[j] # None => progress'[j].status \in Terminal
       /\ \A j \in JobIds :
              (Exists(progress[j]) /\ progress[j].status \in InFlight) => Exists(progress'[j])]_vars

\* C36: a stream that was opened on an existing progress record and has
\* ended has yielded exactly one of done and timeout, as its last event.
C36_StreamEndsWithClosingEvent ==
    (stream.pc = "closed" /\ "error" \notin stream.yielded) =>
        /\ stream.emitted # <<>>
        /\ stream.emitted[Len(stream.emitted)] \in {"done", "timeout"}
        /\ ("done" \in stream.yielded) # ("timeout" \in stream.yielded)

\* C37: a step changes the status of a jobs row to cancelled only when the
\* row is pending or running at that step.
C37_CancelledOnlyFromInFlight ==
    [][\A j \in JobIds :
          (db_jobs'[j] = "cancelled" /\ db_jobs[j] # "cancelled")
              => db_jobs[j] \in {"pending", "running"}]_vars

\* The (chunk_index, start_range, end_range) of stored rows and of dispatched tasks
RowRanges(rows) == {<<row.chunk_index, row.start_range, row.end_range>> : row \in rows}
TaskRanges(subtasks) ==
    {<<subtasks[k].index, subtasks[k].start, subtasks[k].end>> : k \in 1 .. Len(subtasks)}

\* C38: once start_job has dispatched the chunks of a job whose rows create_job
\* stored, the stored rows carry the indexed ranges of the dispatched tasks,
\* every stored row has start_range <= end_range, and a row a chunk has
\* updated holds the sum of the row's own range.
C38_RowsAreDispatchedRanges ==
    (db_job_chunks[1] # {} /\ orch[1].state = "done") =>
        /\ RowRanges(db_job_chunks[1]) = TaskRanges(chunk[1])
        /\ \A row \in db_job_chunks[1] :
               /\ row.start_range <= row.end_range
               /\ row.result # None => row.result[1] = RangeSum(row.start_range, row.end_range)

\* C39: the gauge is the number of created jobs whose status is not yet
\* completed or failed.
C39_GaugeCountsActiveJobs ==
    active_jobs_gauge =
        Cardinality({j \in issued : ~(Exists(progress[j])
                                      /\ progress[j].status \in {"completed", "failed"})})

====
